---- MODULE Spec2Model ----
(***************************************************************************)
(* A model of the BPF-arena data structure library: the doubly-linked      *)
(* list (ds_list.h), the Ellen et al. binary search tree (ds_bintree.h),   *)
(* the Folly SPSC ring (ds_folly_spsc.h), the CK SPSC ring and FIFO        *)
(* (ds_ck_ring_spsc.h, ds_ck_fifo_spsc.h), Vyukov's bounded MPMC and       *)
(* unbounded MPSC queues (ds_vyukhov.h, ds_mpsc.h) and the Michael-Scott   *)
(* queue (ds_msqueue.h), the CAS-only search tree (ds_bst.h) and the arena *)
(* allocator (libarena_ds.h).                                              *)
(*                                                                         *)
(* Each structure has its own variables, its own actions and its own       *)
(* specification (SpecList, SpecBst, ...).  The actions of one structure   *)
(* leave the variables of all the others unchanged.  Memory is             *)
(* sequentially consistent: one action is one shared-memory access of the  *)
(* source (or, for the structures the source only supports serialized, one *)
(* whole call).                                                            *)
(***************************************************************************)
EXTENDS Integers, Sequences, FiniteSets, TLC

\* enum ds_result, as strings (the numeric values play no role).
DS_SUCCESS == "DS_SUCCESS"
DS_ERROR_NOT_FOUND == "DS_ERROR_NOT_FOUND"
DS_ERROR_NOMEM == "DS_ERROR_NOMEM"
DS_ERROR_INVALID == "DS_ERROR_INVALID"
DS_ERROR_CORRUPT == "DS_ERROR_CORRUPT"
DS_ERROR_BUSY == "DS_ERROR_BUSY"
DS_ERROR_FULL == "DS_ERROR_FULL"

\* The null arena pointer.
NULL == 0

VARIABLES
    \* ---- ds_list.h ----
    l_first,    \* head->first
    l_count,    \* head->count (__u64; a negative value c stands for the wrapped 2^64 + c)
    l_next,     \* node -> n->next
    l_pprev,    \* node -> n->pprev, as a slot (see ListHeadSlot, ListNextSlot)
    l_key,      \* node -> n->key
    l_value,    \* node -> n->value
    l_brk,      \* number of nodes handed out by the allocator so far
    l_freed,    \* nodes passed to bpf_arena_free
    l_abs,      \* history: key -> value of the last successful insert, 0 once deleted
    l_last,     \* history: the last call, its arguments and its result
    \* ---- ds_bintree.h ----
    b_root,     \* head->root
    b_count,    \* head->count
    b_type,     \* node -> header.type
    b_key,      \* node -> kv.key of a leaf, key.key of an internal node (same offset)
    b_val,      \* node -> kv.value of a leaf
    b_left,     \* node -> pLeft
    b_right,    \* node -> pRight
    b_upd,      \* node -> m_pUpdate, as [op, state]
    b_brk,      \* number of tree nodes handed out by the allocator so far
    b_ops,      \* number of update descriptors handed out so far
    b_wild,     \* a child pointer has been overwritten with a value
    b_in,       \* history: keys whose last successful insert/delete was an insert
    b_last,     \* history: the last call, its argument and its result
    b_t,        \* the thread whose call is followed step by step
    \* ---- ds_folly_spsc.h ----
    f_size,     \* head->size
    f_write,    \* head->write_idx.idx
    f_read,     \* head->read_idx.idx
    f_rec,      \* slot -> head->records[slot]
    f_p,        \* the producer: where it is in ds_spsc_insert, and its locals
    f_c,        \* the consumer: where it is in ds_spsc_delete, and its locals
    f_ins,      \* history: the pairs of the inserts that returned SUCCESS, in order
    f_del,      \* history: the pairs the deletes that returned SUCCESS gave back, in order
    \* ---- ds_ck_ring_spsc.h, usertest_ck_ring_spsc.c ----
    r_capacity, \* head->capacity
    r_mask,     \* head->mask
    r_c_head,   \* head->c_head
    r_p_tail,   \* head->p_tail
    r_slots,    \* slot -> head->slots[slot]
    r_p,        \* the producer thread: where it is, its locals, its loop counter i
    r_c,        \* the consumer thread: where it is, its locals, expected_key
    r_failures, \* ctx.ordering_failures
    r_pop,      \* history: the keys the successful pops returned, in order
    \* ---- ds_ck_fifo_spsc.h ----
    k_head,     \* fifo->head
    k_tail,     \* fifo->tail
    k_snapshot, \* fifo->head_snapshot
    k_garbage,  \* fifo->garbage
    k_value,    \* entry -> entry->value, the entry whose kv it points to (or NULL)
    k_next,     \* entry -> entry->next
    k_kv,       \* entry -> entry->kv
    k_brk,      \* number of entries handed out by the allocator so far
    k_p,        \* the producer: where it is in ds_ck_fifo_spsc_insert, and its locals
    k_c,        \* the consumer: where it is in ds_ck_fifo_spsc_delete, and its locals
    k_ins,      \* history: the pairs of the entries linked into the queue, in order
    k_del,      \* history: the pairs the deletes that returned SUCCESS gave back, in order
    \* ---- ds_vyukhov.h ----
    v_enqueue_pos, \* head->enqueue_pos
    v_dequeue_pos, \* head->dequeue_pos
    v_mask,     \* head->buffer_mask
    v_count,    \* head->count
    v_buffer,   \* index -> head->buffer[index]: [sequence, key, value]
    v_p,        \* producer thread -> where it is in ds_vyukhov_insert, and its locals
    v_c,        \* consumer thread -> where it is in ds_vyukhov_delete, and its locals
    v_put,      \* history: position -> the pairs given by the inserts that reserved it
    v_got,      \* history: position -> the pairs returned by the deletes that reserved it
    v_pub,      \* history: positions whose producer has stored sequence = pos + 1
    v_rel,      \* history: positions whose consumer has stored sequence = pos + mask + 1
    v_calls,    \* the number of ds_vyukhov_insert calls started
    v_seen,     \* history: thread -> what had been reserved and stored when its call started
    \* ---- ds_mpsc.h ----
    m_head,     \* ctx->head
    m_tail,     \* ctx->tail
    m_count,    \* ctx->count
    m_next,     \* node -> node->next
    m_key,      \* node -> node->data.key
    m_value,    \* node -> node->data.value
    m_brk,      \* the number of nodes handed out by bpf_arena_alloc
    m_freed,    \* the nodes passed to bpf_arena_free
    m_p,        \* producer thread -> where it is in ds_mpsc_insert, and its locals
    m_c,        \* where the consumer is in ds_mpsc_delete, and its locals
    m_xchg,     \* history: the pairs in the order of the exchanges on ctx->head
    m_ins,      \* history: the pairs whose ds_mpsc_insert has returned DS_SUCCESS
    m_del,      \* history: the pairs returned by successful ds_mpsc_delete calls, in order
    \* ---- ds_msqueue.h ----
    q_head,     \* queue->head
    q_tail,     \* queue->tail
    q_count,    \* queue->count
    q_next,     \* node -> node->node.next
    q_key,      \* node -> node->data.key
    q_value,    \* node -> node->data.value
    q_brk,      \* the number of nodes handed out by bpf_arena_alloc
    q_freed,    \* the nodes passed to bpf_arena_free
    q_p,        \* producer thread -> where it is in ds_msqueue_insert, and its locals
    q_c,        \* consumer thread -> where it is in ds_msqueue_delete, and its locals
    q_link,     \* history: the pairs in the order of the successful CASes on tail->node.next
    q_ins,      \* history: the pairs whose ds_msqueue_insert has returned DS_SUCCESS
    q_deq,      \* history: the pairs returned, in the order of the successful CASes on queue->head
    q_consumed, \* usertest_msqueue.c: c->consumed
    q_seen,     \* history: the pairs consumer_thread has printed as consumed, in order
    \* ---- libarena_ds.h ----
    a_cur_page,   \* cpu -> page_frag_cur_page[cpu]
    a_cur_offset, \* cpu -> page_frag_cur_offset[cpu]
    a_obj_cnt,    \* page -> the object counter in the last 8 bytes of the page
    a_mapped,     \* the pages handed out by the page source and not given back
    a_live,       \* history: the objects returned by bpf_arena_alloc and not yet freed
    a_calls,      \* the number of bpf_arena_alloc calls made
    a_ret,        \* the last call and what it returned
    a_t,          \* CPU -> the call it is in the middle of, when calls run in steps
    \* ---- ds_bst.h ----
    c_base,     \* node -> base.is_leaf and base.infinite_key
    c_key,      \* node -> kv.key of a leaf, routing_key.key of an internal node
    c_value,    \* node -> kv.value of a leaf
    c_left,     \* node -> left
    c_right,    \* node -> right
    c_brk,      \* number of nodes handed out by the allocator so far
    c_freed,    \* nodes passed to bpf_arena_free
    c_t,        \* thread -> the call it is in, its locals and its last result
    c_ins       \* history: the keys whose ds_bst_insert has returned DS_SUCCESS

listVars == <<l_first, l_count, l_next, l_pprev, l_key, l_value, l_brk, l_freed, l_abs, l_last>>
bstVars == <<b_root, b_count, b_type, b_key, b_val, b_left, b_right, b_upd, b_brk, b_ops,
             b_wild, b_in, b_last, b_t>>
follyVars == <<f_size, f_write, f_read, f_rec, f_p, f_c, f_ins, f_del>>
ringVars == <<r_capacity, r_mask, r_c_head, r_p_tail, r_slots, r_p, r_c, r_failures,
    r_pop>>
fifoVars == <<k_head, k_tail, k_snapshot, k_garbage, k_value, k_next, k_kv, k_brk, k_p,
    k_c, k_ins, k_del>>
vyVars == <<v_enqueue_pos, v_dequeue_pos, v_mask, v_count, v_buffer, v_p, v_c, v_put,
    v_got, v_pub, v_rel, v_calls, v_seen>>
mpscVars == <<m_head, m_tail, m_count, m_next, m_key, m_value, m_brk, m_freed, m_p, m_c,
    m_xchg, m_ins, m_del>>
msqVars == <<q_head, q_tail, q_count, q_next, q_key, q_value, q_brk, q_freed, q_p, q_c,
    q_link, q_ins, q_deq, q_consumed, q_seen>>
allocVars == <<a_cur_page, a_cur_offset, a_obj_cnt, a_mapped, a_live, a_calls, a_ret, a_t>>
cbstVars == <<c_base, c_key, c_value, c_left, c_right, c_brk, c_freed, c_t, c_ins>>

vars == <<listVars, bstVars, follyVars, ringVars, fifoVars, vyVars, mpscVars, msqVars,
    allocVars, cbstVars>>

\* What the calls on one structure leave alone: every other structure.
notListVars == <<bstVars, follyVars, ringVars, fifoVars, vyVars, mpscVars, msqVars, allocVars, cbstVars>>
notBstVars == <<listVars, follyVars, ringVars, fifoVars, vyVars, mpscVars, msqVars, allocVars, cbstVars>>
notFollyVars == <<listVars, bstVars, ringVars, fifoVars, vyVars, mpscVars, msqVars, allocVars, cbstVars>>
notRingVars == <<listVars, bstVars, follyVars, fifoVars, vyVars, mpscVars, msqVars, allocVars, cbstVars>>
notFifoVars == <<listVars, bstVars, follyVars, ringVars, vyVars, mpscVars, msqVars, allocVars, cbstVars>>
notVyVars == <<listVars, bstVars, follyVars, ringVars, fifoVars, mpscVars, msqVars, allocVars, cbstVars>>
notMpscVars == <<listVars, bstVars, follyVars, ringVars, fifoVars, vyVars, msqVars, allocVars, cbstVars>>
notMsqVars == <<listVars, bstVars, follyVars, ringVars, fifoVars, vyVars, mpscVars, allocVars, cbstVars>>
notAllocVars == <<listVars, bstVars, follyVars, ringVars, fifoVars, vyVars, mpscVars, msqVars, cbstVars>>
notCbstVars == <<listVars, bstVars, follyVars, ringVars, fifoVars, vyVars, mpscVars, msqVars, allocVars>>

(***************************************************************************)
(*              ARENA PAGE-FRAGMENT ALLOCATOR (libarena_ds.h)              *)
(*                                                                         *)
(* The BPF-side allocator of include/libarena_ds.h.  A page is named by    *)
(* its address, a multiple of PAGE_SIZE; the arena holds the pages         *)
(* AllocPages, and the page source hands out any page that is not mapped.  *)
(* A BPF program runs to completion on its CPU, so one action is one whole *)
(* call.  An unsigned int is MaxAllocWordBits wide.  A BPF access to an    *)
(* arena page that is not mapped faults: the load yields 0, the store is   *)
(* dropped.                                                                *)
(***************************************************************************)

MaxAllocCpus == 2
MaxAllocPages == 2
MaxAllocPageLog2 == 12
MaxAllocWordBits == 16
MaxAllocCalls == 4

PAGE_SIZE == 2 ^ MaxAllocPageLog2
UINT_MODULUS == 2 ^ MaxAllocWordBits
AllocCpus == 1..MaxAllocCpus
AllocPages == {p * PAGE_SIZE : p \in 1..MaxAllocPages}
\* The sizes the callers ask for: nothing, one byte, half a page, a request
\* too large for a page, and the largest unsigned int.
AllocSizes == {0, 1, PAGE_SIZE \div 2 - 7, PAGE_SIZE - 9, UINT_MODULUS - 1}

\* A CPU that is in no call.
AllocIdle == [pc |-> "idle", addr |-> NULL, page |-> NULL, offset |-> 0, size |-> 0, cnt |-> 0]

AllocInit ==
    /\ a_cur_page = [cpu \in AllocCpus |-> NULL]
    /\ a_cur_offset = [cpu \in AllocCpus |-> 0]
    /\ a_obj_cnt = [page \in AllocPages |-> 0]
    /\ a_mapped = {}
    /\ a_live = <<>>
    /\ a_calls = 0
    /\ a_ret = [op |-> "none"]
    /\ a_t = [cpu \in AllocCpus |-> AllocIdle]

\* Arithmetic on unsigned int, and the conversion of an unsigned int to int.
AllocUnsigned(x) == x % UINT_MODULUS
AllocInt(u) == IF u >= UINT_MODULUS \div 2 THEN u - UINT_MODULUS ELSE u

\* round_up(x, y) for an unsigned x and a power of two y: (((x)-1) | (y-1)) + 1.
round_up(x, y) == LET m == AllocUnsigned(x - 1) IN AllocUnsigned((m - (m % y)) + (y - 1) + 1)

\* The refill of the older allocator: the difference is taken as an int.
AllocNeedsRefillSigned(page, cur_offset, size) == page = NULL \/ cur_offset - size < 0

\* if (!page || (*cur_offset - size < 0)): size is an unsigned int, so the
\* difference is an unsigned int.
AllocNeedsRefill(page, cur_offset, size) == page = NULL \/ AllocUnsigned(cur_offset - size) < 0

\* bpf_arena_alloc_pages(&arena, NULL, 1, NUMA_NO_NODE, 0): a page of the arena
\* that is not mapped, or NULL when there is none.
bpf_arena_alloc_pages == IF AllocPages \ a_mapped = {} THEN {NULL} ELSE AllocPages \ a_mapped

\* The page an address lies in: addr & ~(PAGE_SIZE - 1).
AllocPageOf(addr) == addr - (addr % PAGE_SIZE)

\* bpf_arena_alloc(size) on a CPU, with bpf_arena_refill_page.
bpf_arena_alloc(cpu, request) ==
    /\ a_calls < MaxAllocCalls
    /\ a_calls' = a_calls + 1
    /\ UNCHANGED a_t
    /\ LET size == round_up(request, 8)
           had_page == a_cur_page[cpu]
           had_offset == a_cur_offset[cpu]
           refill == AllocNeedsRefill(had_page, had_offset, size)
           failed == [op |-> "alloc", ok |-> FALSE, cpu |-> cpu, size |-> size, addr |-> NULL,
                      page |-> NULL, fresh |-> FALSE, had_page |-> had_page,
                      had_offset |-> had_offset]
       IN  IF size >= PAGE_SIZE - 8
           THEN /\ a_ret' = failed
                /\ UNCHANGED <<a_cur_page, a_cur_offset, a_obj_cnt, a_mapped, a_live>>
           ELSE \E got \in (IF refill THEN bpf_arena_alloc_pages ELSE {had_page}):
                  IF got = NULL
                  THEN /\ a_ret' = failed
                       /\ UNCHANGED <<a_cur_page, a_cur_offset, a_obj_cnt, a_mapped, a_live>>
                  ELSE LET cur == IF refill THEN PAGE_SIZE - 8 ELSE had_offset
                           mapped == IF refill THEN a_mapped \cup {got} ELSE a_mapped
                           cnt == IF refill THEN [a_obj_cnt EXCEPT ![got] = 0] ELSE a_obj_cnt
                           offset == AllocInt(AllocUnsigned(cur - size))
                       IN  /\ a_cur_page' = [a_cur_page EXCEPT ![cpu] = got]
                           /\ a_cur_offset' = [a_cur_offset EXCEPT ![cpu] = offset]
                           /\ a_mapped' = mapped
                           /\ a_obj_cnt' = IF got \in mapped
                                           THEN [cnt EXCEPT ![got] = AllocUnsigned(@ + 1)]
                                           ELSE cnt
                           /\ a_live' = Append(a_live, [addr |-> got + offset, size |-> size])
                           /\ a_ret' = [op |-> "alloc", ok |-> TRUE, cpu |-> cpu, size |-> size,
                                        addr |-> got + offset, page |-> got, fresh |-> refill,
                                        had_page |-> had_page, had_offset |-> had_offset]
    /\ UNCHANGED notAllocVars

\* bpf_arena_free(addr) of the i-th object that is live.
bpf_arena_free(i) ==
    /\ i \in 1..Len(a_live)
    /\ LET addr == AllocPageOf(a_live[i].addr)
           cnt == IF addr \in a_mapped THEN AllocUnsigned(a_obj_cnt[addr] - 1) ELSE UINT_MODULUS - 1
       IN  /\ a_obj_cnt' = IF addr \in a_mapped THEN [a_obj_cnt EXCEPT ![addr] = cnt] ELSE a_obj_cnt
           /\ a_mapped' = IF cnt = 0 THEN a_mapped \ {addr} ELSE a_mapped
           /\ a_ret' = [op |-> "free", addr |-> a_live[i].addr, page |-> addr, released |-> cnt = 0]
    /\ a_live' = [j \in 1..(Len(a_live) - 1) |-> IF j < i THEN a_live[j] ELSE a_live[j + 1]]
    /\ UNCHANGED <<a_cur_page, a_cur_offset, a_calls, a_t>>
    /\ UNCHANGED notAllocVars

\* bpf_arena_alloc(size) on a CPU while other CPUs are in calls of their own:
\* everything up to the load of *obj_cnt in "(*obj_cnt)++".
AllocLoadCount(cpu, request) ==
    /\ a_t[cpu].pc = "idle"
    /\ a_calls < MaxAllocCalls
    /\ a_calls' = a_calls + 1
    /\ LET size == round_up(request, 8)
           had_page == a_cur_page[cpu]
           had_offset == a_cur_offset[cpu]
           refill == AllocNeedsRefill(had_page, had_offset, size)
           failed == [op |-> "alloc", ok |-> FALSE, cpu |-> cpu, size |-> size, addr |-> NULL,
                      page |-> NULL, fresh |-> FALSE, had_page |-> had_page,
                      had_offset |-> had_offset]
       IN  IF size >= PAGE_SIZE - 8
           THEN /\ a_ret' = failed
                /\ UNCHANGED <<a_cur_page, a_cur_offset, a_obj_cnt, a_mapped, a_t>>
           ELSE \E got \in (IF refill THEN bpf_arena_alloc_pages ELSE {had_page}):
                  IF got = NULL
                  THEN /\ a_ret' = failed
                       /\ UNCHANGED <<a_cur_page, a_cur_offset, a_obj_cnt, a_mapped, a_t>>
                  ELSE LET cur == IF refill THEN PAGE_SIZE - 8 ELSE had_offset
                           mapped == IF refill THEN a_mapped \cup {got} ELSE a_mapped
                           cnt == IF refill THEN [a_obj_cnt EXCEPT ![got] = 0] ELSE a_obj_cnt
                       IN  /\ a_cur_page' = [a_cur_page EXCEPT ![cpu] = got]
                           /\ a_cur_offset' = [a_cur_offset EXCEPT ![cpu] = cur]
                           /\ a_mapped' = mapped
                           /\ a_obj_cnt' = cnt
                           /\ a_t' = [a_t EXCEPT ![cpu] =
                                        [pc |-> "alloc_store", addr |-> NULL, page |-> got,
                                         offset |-> AllocInt(AllocUnsigned(cur - size)),
                                         size |-> size,
                                         cnt |-> IF got \in mapped THEN cnt[got] ELSE 0]]
                           /\ UNCHANGED a_ret
    /\ UNCHANGED a_live
    /\ UNCHANGED notAllocVars

\* bpf_arena_alloc: the store of "(*obj_cnt)++", "*cur_offset = offset" and
\* "return page + offset".
AllocStoreCount(cpu) ==
    LET t == a_t[cpu] IN
    /\ t.pc = "alloc_store"
    /\ a_obj_cnt' = IF t.page \in a_mapped
                    THEN [a_obj_cnt EXCEPT ![t.page] = AllocUnsigned(t.cnt + 1)]
                    ELSE a_obj_cnt
    /\ a_cur_offset' = [a_cur_offset EXCEPT ![cpu] = t.offset]
    /\ a_live' = Append(a_live, [addr |-> t.page + t.offset, size |-> t.size])
    /\ a_ret' = [op |-> "alloc", ok |-> TRUE, cpu |-> cpu, size |-> t.size,
                 addr |-> t.page + t.offset, page |-> t.page]
    /\ a_t' = [a_t EXCEPT ![cpu] = AllocIdle]
    /\ UNCHANGED <<a_cur_page, a_mapped, a_calls>>
    /\ UNCHANGED notAllocVars

\* bpf_arena_free(addr) of the i-th live object on a CPU: the page of addr
\* and the load of *obj_cnt in "--(*obj_cnt)".
FreeLoadCount(cpu, i) ==
    /\ a_t[cpu].pc = "idle"
    /\ i \in 1..Len(a_live)
    /\ LET addr == AllocPageOf(a_live[i].addr) IN
           a_t' = [a_t EXCEPT ![cpu] =
                     [pc |-> "free_store", addr |-> a_live[i].addr, page |-> addr, offset |-> 0,
                      size |-> 0, cnt |-> IF addr \in a_mapped THEN a_obj_cnt[addr] ELSE 0]]
    /\ a_live' = [j \in 1..(Len(a_live) - 1) |-> IF j < i THEN a_live[j] ELSE a_live[j + 1]]
    /\ UNCHANGED <<a_cur_page, a_cur_offset, a_obj_cnt, a_mapped, a_calls, a_ret>>
    /\ UNCHANGED notAllocVars

\* bpf_arena_free: the store of "--(*obj_cnt)", the test "== 0" and
\* bpf_arena_free_pages(&arena, addr, 1).
FreeStoreCount(cpu) ==
    LET t == a_t[cpu]
        cnt == AllocUnsigned(t.cnt - 1)
    IN
    /\ t.pc = "free_store"
    /\ a_obj_cnt' = IF t.page \in a_mapped THEN [a_obj_cnt EXCEPT ![t.page] = cnt]
                    ELSE a_obj_cnt
    /\ a_mapped' = IF cnt = 0 THEN a_mapped \ {t.page} ELSE a_mapped
    /\ a_ret' = [op |-> "free", addr |-> t.addr, page |-> t.page, released |-> cnt = 0]
    /\ a_t' = [a_t EXCEPT ![cpu] = AllocIdle]
    /\ UNCHANGED <<a_cur_page, a_cur_offset, a_live, a_calls>>
    /\ UNCHANGED notAllocVars

\* Calls of bpf_arena_alloc(8) and bpf_arena_free on the CPUs, each call in
\* two steps, in every interleaving.
NextAllocRace ==
    \/ \E cpu \in AllocCpus : AllocLoadCount(cpu, 8)
    \/ \E cpu \in AllocCpus : AllocStoreCount(cpu)
    \/ \E cpu \in AllocCpus, i \in 1..MaxAllocCalls : FreeLoadCount(cpu, i)
    \/ \E cpu \in AllocCpus : FreeStoreCount(cpu)

NextAlloc ==
    \/ \E cpu \in AllocCpus, request \in AllocSizes: bpf_arena_alloc(cpu, request)
    \/ \E i \in 1..MaxAllocCalls: bpf_arena_free(i)

(***************************************************************************)
(*                       DOUBLY-LINKED LIST (ds_list.h)                    *)
(***************************************************************************)

\* Bounds of the list model.
MaxListNodes == 3
MaxListKey == 2
MaxListValue == 2
\* The model stops deleting once head->count has wrapped this far below zero.
MaxListWrap == 2

ListNodes == 1..MaxListNodes
ListKeys == 1..MaxListKey
ListValues == 1..MaxListValue

\* A node** is modelled as the slot it points to: &head->first or &n->next.
ListHeadSlot == 0
ListNextSlot(n) == n
ListNoSlot == -1
ListSlots == {ListNoSlot, ListHeadSlot} \cup ListNodes

\* max_iterations of ds_list_verify.
ListVerifyMaxIter == 100000

ListInit ==
    /\ l_first = NULL
    /\ l_count = 0
    /\ l_next = [n \in ListNodes |-> NULL]
    /\ l_pprev = [n \in ListNodes |-> ListNoSlot]
    /\ l_key = [n \in ListNodes |-> 0]
    /\ l_value = [n \in ListNodes |-> 0]
    /\ l_brk = 0
    /\ l_freed = {}
    /\ l_abs = [k \in ListKeys |-> 0]
    /\ l_last = [op |-> "init", key |-> 0, value |-> 0, node |-> NULL, ret |-> DS_SUCCESS]

\* A lookup that looks at the first node only.
ListFindFirstOnly(n, key, fuel) == IF n # NULL /\ fuel # 0 /\ l_key[n] = key THEN n ELSE NULL

\* The loop "n = head->first; while (n) { if (n->key == key) ...; n = n->next; }"
\* shared by insert, delete and search: the first node with the key, or NULL.
RECURSIVE ListFind(_, _, _)
ListFind(n, key, fuel) ==
    IF n = NULL \/ fuel = 0 THEN NULL
    ELSE IF l_key[n] = key THEN n
    ELSE ListFind(l_next[n], key, fuel - 1)

\* The nodes a walk from head->first visits, in order.
RECURSIVE ListWalk(_, _)
ListWalk(n, fuel) ==
    IF n = NULL \/ fuel = 0 THEN <<>>
    ELSE <<n>> \o ListWalk(l_next[n], fuel - 1)

ListReach == ListWalk(l_first, MaxListNodes + 1)

\* __list_add_head(n, h), on the node n just initialised with (key, value).
ListAddHead(n, key, value) ==
    /\ l_next' = [l_next EXCEPT ![n] = l_first]
    /\ l_pprev' = IF l_first # NULL
                  THEN [l_pprev EXCEPT ![l_first] = ListNextSlot(n), ![n] = ListHeadSlot]
                  ELSE [l_pprev EXCEPT ![n] = ListHeadSlot]
    /\ l_first' = n
    /\ l_key' = [l_key EXCEPT ![n] = key]
    /\ l_value' = [l_value EXCEPT ![n] = value]

\* __list_del(n): "tmp = *pprev; WRITE_ONCE(tmp, next);" stores next into the
\* local variable tmp, so the slot *pprev keeps pointing to n; only
\* next->pprev is redirected.
ListDel(n) ==
    /\ l_pprev' = IF l_next[n] # NULL
                  THEN [l_pprev EXCEPT ![l_next[n]] = l_pprev[n]]
                  ELSE l_pprev
    /\ UNCHANGED <<l_first, l_next>>

\* ds_list_insert(head, key, value)
ListInsert(key, value) ==
    LET n == ListFind(l_first, key, MaxListNodes + 1) IN
    /\ UNCHANGED notListVars
    /\ IF n # NULL
       THEN /\ l_value' = [l_value EXCEPT ![n] = value]
            /\ l_abs' = [l_abs EXCEPT ![key] = value]
            /\ l_last' = [op |-> "insert", key |-> key, value |-> value, node |-> n, ret |-> DS_SUCCESS]
            /\ UNCHANGED <<l_first, l_count, l_next, l_pprev, l_key, l_brk, l_freed>>
       ELSE IF l_brk >= MaxListNodes
       THEN /\ l_last' = [op |-> "insert", key |-> key, value |-> value, node |-> NULL, ret |-> DS_ERROR_NOMEM]
            /\ UNCHANGED <<l_first, l_count, l_next, l_pprev, l_key, l_value, l_brk, l_freed, l_abs>>
       ELSE /\ l_brk' = l_brk + 1
            /\ ListAddHead(l_brk + 1, key, value)
            /\ l_count' = l_count + 1
            /\ l_abs' = [l_abs EXCEPT ![key] = value]
            /\ l_last' = [op |-> "insert", key |-> key, value |-> value, node |-> l_brk + 1, ret |-> DS_SUCCESS]
            /\ UNCHANGED l_freed

\* ds_list_delete(head, key)
ListDelete(key) ==
    LET n == ListFind(l_first, key, MaxListNodes + 1) IN
    /\ l_count > -MaxListWrap
    /\ UNCHANGED notListVars
    /\ IF n # NULL
       THEN /\ ListDel(n)
            /\ l_freed' = l_freed \cup {n}
            /\ l_count' = l_count - 1
            /\ l_abs' = [l_abs EXCEPT ![key] = 0]
            /\ l_last' = [op |-> "delete", key |-> key, value |-> 0, node |-> n, ret |-> DS_SUCCESS]
            /\ UNCHANGED <<l_key, l_value, l_brk>>
       ELSE /\ l_last' = [op |-> "delete", key |-> key, value |-> 0, node |-> NULL, ret |-> DS_ERROR_NOT_FOUND]
            /\ UNCHANGED <<l_first, l_count, l_next, l_pprev, l_key, l_value, l_brk, l_freed, l_abs>>

\* ds_list_search(head, key, &value): the result code and *value.
ListSearchResult(key) ==
    LET n == ListFind(l_first, key, MaxListNodes + 1) IN
    IF n # NULL THEN [ret |-> DS_SUCCESS, value |-> l_value[n], node |-> n]
    ELSE [ret |-> DS_ERROR_NOT_FOUND, value |-> 0, node |-> NULL]

ListSearch(key) ==
    /\ l_last' = [op |-> "search", key |-> key, value |-> ListSearchResult(key).value,
                  node |-> ListSearchResult(key).node, ret |-> ListSearchResult(key).ret]
    /\ UNCHANGED <<l_first, l_count, l_next, l_pprev, l_key, l_value, l_brk, l_freed, l_abs>>
    /\ UNCHANGED notListVars

\* The loop of ds_list_verify from node n with the running expected_pprev and
\* count: CORRUPT at the first pprev mismatch, else the count check.
RECURSIVE ListVerifyFrom(_, _, _)
ListVerifyFrom(n, expected_pprev, count) ==
    IF n = NULL \/ count >= ListVerifyMaxIter
    THEN IF count # l_count THEN DS_ERROR_CORRUPT
         ELSE IF count >= ListVerifyMaxIter /\ n # NULL THEN DS_ERROR_CORRUPT
         ELSE DS_SUCCESS
    ELSE IF l_pprev[n] # expected_pprev THEN DS_ERROR_CORRUPT
    ELSE ListVerifyFrom(l_next[n], ListNextSlot(n), count + 1)

\* ds_list_verify(head).  expected_pprev is declared without an initialiser and
\* first read when the first node is compared: its value there is whatever
\* the stack holds, any slot value.
ListVerifyResult(uninit) == ListVerifyFrom(l_first, uninit, 0)

ListVerify(uninit) ==
    /\ l_last' = [op |-> "verify", key |-> 0, value |-> 0, node |-> NULL, ret |-> ListVerifyResult(uninit)]
    /\ UNCHANGED <<l_first, l_count, l_next, l_pprev, l_key, l_value, l_brk, l_freed, l_abs>>
    /\ UNCHANGED notListVars

NextList ==
    \/ \E k \in ListKeys, v \in ListValues : ListInsert(k, v)
    \/ \E k \in ListKeys : ListDelete(k)
    \/ \E k \in ListKeys : ListSearch(k)
    \/ \E g \in ListSlots : ListVerify(g)

(***************************************************************************)
(*                NON-BLOCKING BINARY SEARCH TREE (ds_bintree.h)           *)
(*                                                                         *)
(* BstInsert, BstDelete and BstSearch are whole calls: one action is one   *)
(* call that runs without interruption, with every compare-and-swap it     *)
(* makes.  One more thread, b_t, runs ds_bintree_insert or                 *)
(* ds_bintree_delete step by step: bst_search is one action, and so is     *)
(* every compare-and-swap after it; the whole calls of the other threads   *)
(* run between its steps.                                                  *)
(***************************************************************************)

\* Bounds of the tree model: successful inserts the arena has room for, and
\* the user keys and values the calls draw from.
MaxBstInserts == 3
MaxBstKey == 3
MaxBstValue == 2

BstKeys == 1..MaxBstKey
BstValues == 1..MaxBstValue

\* Bounds of the runs that build larger trees: the successful inserts the
\* arena has room for in all, and the keys those runs draw from.
MaxBstDeepInserts == 7
MaxBstRetries == 3
MaxBstDeepKey == 7

BstDeepKeys == 1..MaxBstDeepKey

\* The allocator hands out the two sentinel leaves, the root, and a leaf
\* and an internal node per insert.
MaxBstNodes == 3 + 2 * MaxBstDeepInserts
BstNodes == 1..MaxBstNodes

\* enum ds_bst_node_type
BST_NODE_INTERNAL == 0
BST_NODE_LEAF == 1
BST_NODE_KEY_INF1 == 2
BST_NODE_KEY_INF2 == 4

\* enum ds_bst_state
BST_CLEAN == 0
BST_DFLAG == 1
BST_IFLAG == 2
BST_MARK == 3

BST_MAX_DEPTH == 4

\* The sentinel keys ((__u64)-2 and (__u64)-1), kept above every user key.
BST_SENTINEL_KEY1 == MaxBstDeepKey + 1
BST_SENTINEL_KEY2 == MaxBstDeepKey + 2

\* A field the code never writes holds what the arena held: zero.
BstUnsetKey == 0

bst_make_update(info, state) == [op |-> info, state |-> state]
bst_get_bits(update) == update.state
bst_get_ptr(update) == [op |-> update.op, state |-> BST_CLEAN]

bst_is_internal(node) == b_type[node] = BST_NODE_INTERNAL

bst_get_child(node, bRight) == IF bRight THEN b_right[node] ELSE b_left[node]

\* bst_set_infinite_key: the type flags with the infinite-key bits cleared
\* and then set to nInf.
bst_set_infinite_key(type, nInf) ==
    (type % 2) + (IF nInf = 1 THEN BST_NODE_KEY_INF1
                  ELSE IF nInf = 2 THEN BST_NODE_KEY_INF2 ELSE 0)

\* struct bst_search_result before bst_search has filled it in.
BstNoResult == [pGrandParent |-> NULL, pParent |-> NULL, pLeaf |-> NULL, updParent |-> bst_make_update(NULL, BST_CLEAN), updGrandParent |-> bst_make_update(NULL, BST_CLEAN), bRightLeaf |-> FALSE, bRightParent |-> FALSE, nCmp |-> FALSE]

\* The step-by-step thread outside a call.
BstThreadIdle == [pc |-> "idle", op |-> "none", key |-> 0, value |-> 0, iterations |-> 0, res |-> BstNoResult, pOp |-> 0, pNew |-> NULL, busy |-> 0]

\* ds_bintree_init
BstInit ==
    /\ b_root = 3
    /\ b_count = 0
    /\ b_type = [n \in BstNodes |-> IF n \in {1, 2} THEN BST_NODE_LEAF ELSE BST_NODE_INTERNAL]
    /\ b_key = [n \in BstNodes |-> IF n = 1 THEN BST_SENTINEL_KEY1
                                   ELSE IF n \in {2, 3} THEN BST_SENTINEL_KEY2 ELSE BstUnsetKey]
    /\ b_val = [n \in BstNodes |-> 0]
    /\ b_left = [n \in BstNodes |-> IF n = 3 THEN 1 ELSE NULL]
    /\ b_right = [n \in BstNodes |-> IF n = 3 THEN 2 ELSE NULL]
    /\ b_upd = [n \in BstNodes |-> bst_make_update(NULL, BST_CLEAN)]
    /\ b_brk = 3
    /\ b_ops = 0
    /\ b_wild = FALSE
    /\ b_in = {}
    /\ b_last = [op |-> "init", key |-> 0, ret |-> DS_SUCCESS]
    /\ b_t = BstThreadIdle

\* The loop of bst_search and the result it fills in.  pLeaf is compared as
\* a leaf whatever it is: the key read there is kv.key of a leaf and key.key
\* of an internal node.
RECURSIVE BstSearchLoop(_, _, _)
BstSearchLoop(key, res, iterations) ==
    IF bst_is_internal(res.pLeaf) /\ iterations < BST_MAX_DEPTH
    THEN LET pParent == res.pLeaf
             bRight == key >= b_key[pParent]
             step == [res EXCEPT !.pGrandParent = res.pParent,
                                 !.pParent = pParent,
                                 !.bRightParent = res.bRightLeaf,
                                 !.updGrandParent = res.updParent,
                                 !.updParent = b_upd[pParent]]
         IN  IF bst_get_bits(b_upd[pParent]) \in {BST_DFLAG, BST_MARK}
             THEN step
             ELSE BstSearchLoop(key,
                                [step EXCEPT !.pLeaf = bst_get_child(pParent, bRight),
                                             !.bRightLeaf = bRight],
                                iterations + 1)
    ELSE res

bst_search(key) ==
    LET res == BstSearchLoop(key,
                   [pGrandParent |-> NULL, pParent |-> NULL, pLeaf |-> b_root,
                    updParent |-> bst_make_update(NULL, BST_CLEAN),
                    updGrandParent |-> bst_make_update(NULL, BST_CLEAN),
                    bRightLeaf |-> FALSE, bRightParent |-> FALSE, nCmp |-> FALSE], 0)
    IN  [res EXCEPT !.nCmp = (key = b_key[res.pLeaf])]

\* ds_bintree_search: the result code.
BstSearchResult(key) ==
    LET res == bst_search(key) IN
    IF res.pLeaf = NULL THEN DS_ERROR_NOT_FOUND
    ELSE IF b_key[res.pLeaf] = key THEN DS_SUCCESS
    ELSE DS_ERROR_NOT_FOUND

\* ds_bintree_insert(head, kv), the arena having room for the nodes up to
\* arena.  A retry of the loop finds the tree as the failed iteration left
\* it, so a serialized call that has to retry ends DS_ERROR_BUSY after
\* BST_MAX_DEPTH identical iterations.
ds_bintree_insert(key, value, arena) ==
    LET res == bst_search(key)
        new_leaf == b_brk + 1
        new_internal == b_brk + 2
        pOp == b_ops + 1
        bNewKeyIsLess == key < b_key[res.pLeaf]
        done(ret) == b_last' = [op |-> "insert", key |-> key, ret |-> ret]
    IN
    /\ ~b_wild
    /\ UNCHANGED b_t
    /\ UNCHANGED notBstVars
    /\ IF key >= BST_SENTINEL_KEY1
       THEN /\ done(DS_ERROR_INVALID)
            /\ UNCHANGED <<b_root, b_count, b_type, b_key, b_val, b_left, b_right, b_upd,
                           b_brk, b_ops, b_wild, b_in>>
       ELSE IF res.nCmp
       THEN \* "res.pLeaf->kv.value = kv.value": on a leaf the value, on an
            \* internal node the word that holds pLeft.
            /\ IF b_type[res.pLeaf] = BST_NODE_LEAF
               THEN b_val' = [b_val EXCEPT ![res.pLeaf] = value] /\ UNCHANGED b_wild
               ELSE b_wild' = TRUE /\ UNCHANGED b_val
            /\ b_in' = b_in \cup {key}
            /\ done(DS_SUCCESS)
            /\ UNCHANGED <<b_root, b_count, b_type, b_key, b_left, b_right, b_upd, b_brk, b_ops>>
       ELSE IF \/ res.pParent = NULL
               \/ res.pLeaf = NULL
               \/ bst_get_bits(res.updParent) # BST_CLEAN
               \/ bst_get_bits(res.updGrandParent) # BST_CLEAN
               \/ bst_get_child(res.pParent, res.bRightLeaf) # res.pLeaf
               \/ b_upd[res.pParent] # bst_get_ptr(res.updParent)
       THEN /\ done(DS_ERROR_BUSY)
            /\ UNCHANGED <<b_root, b_count, b_type, b_key, b_val, b_left, b_right, b_upd,
                           b_brk, b_ops, b_wild, b_in>>
       ELSE IF new_internal > arena
       THEN /\ done(DS_ERROR_NOMEM)
            /\ UNCHANGED <<b_root, b_count, b_type, b_key, b_val, b_left, b_right, b_upd,
                           b_brk, b_ops, b_wild, b_in>>
       ELSE /\ b_brk' = new_internal
            /\ b_ops' = pOp
            /\ b_type' = [b_type EXCEPT
                  ![new_leaf] = BST_NODE_LEAF,
                  ![new_internal] =
                      IF bNewKeyIsLess /\ res.pGrandParent = NULL
                      THEN bst_set_infinite_key(BST_NODE_INTERNAL, 1)
                      ELSE bst_set_infinite_key(BST_NODE_INTERNAL, 0)]
            /\ b_key' = [b_key EXCEPT
                  ![new_leaf] = key,
                  ![new_internal] =
                      IF bNewKeyIsLess
                      THEN IF res.pGrandParent # NULL THEN b_key[res.pLeaf] ELSE @
                      ELSE key]
            /\ b_val' = [b_val EXCEPT ![new_leaf] = value]
            \* the new node's children, then bst_help_insert's CAS on the parent
            /\ b_left' = [b_left EXCEPT
                  ![new_internal] = IF bNewKeyIsLess THEN new_leaf ELSE res.pLeaf,
                  ![res.pParent] = IF ~res.bRightLeaf /\ @ = res.pLeaf THEN new_internal ELSE @]
            /\ b_right' = [b_right EXCEPT
                  ![new_internal] = IF bNewKeyIsLess THEN res.pLeaf ELSE new_leaf,
                  ![res.pParent] = IF res.bRightLeaf /\ @ = res.pLeaf THEN new_internal ELSE @]
            /\ b_upd' = [b_upd EXCEPT
                  ![new_internal] = bst_make_update(NULL, BST_CLEAN),
                  ![res.pParent] = bst_make_update(pOp, BST_CLEAN)]
            /\ b_count' = b_count + 1
            /\ b_in' = b_in \cup {key}
            /\ done(DS_SUCCESS)
            /\ UNCHANGED <<b_root, b_wild>>

\* ds_bintree_insert in the runs with MaxBstInserts inserts.
BstInsert(key, value) == ds_bintree_insert(key, value, 3 + 2 * MaxBstInserts)

\* ds_bintree_delete(head, kv): flag the grandparent, then bst_help_delete
\* (mark the parent) and bst_help_marked (bst_cas_child, unflag).
BstDelete(key) ==
    LET res == bst_search(key)
        pOp == b_ops + 1
        right_child == b_right[res.pParent]
        sibling == IF right_child = res.pLeaf THEN b_left[res.pParent] ELSE right_child
        bLeftOfGp == b_key[sibling] < b_key[res.pGrandParent]
        done(ret) == b_last' = [op |-> "delete", key |-> key, ret |-> ret]
    IN
    /\ ~b_wild
    /\ UNCHANGED b_t
    /\ UNCHANGED notBstVars
    /\ IF \/ res.pParent = NULL
          \/ res.pLeaf = NULL
          \/ res.pGrandParent = NULL
          \/ bst_is_internal(res.pLeaf)
       THEN /\ done(DS_ERROR_BUSY)
            /\ UNCHANGED <<b_root, b_count, b_type, b_key, b_val, b_left, b_right, b_upd,
                           b_brk, b_ops, b_wild, b_in>>
       ELSE IF b_key[res.pLeaf] # key
       THEN /\ done(DS_ERROR_NOT_FOUND)
            /\ UNCHANGED <<b_root, b_count, b_type, b_key, b_val, b_left, b_right, b_upd,
                           b_brk, b_ops, b_wild, b_in>>
       ELSE IF \/ bst_get_bits(res.updGrandParent) # BST_CLEAN
               \/ bst_get_bits(res.updParent) # BST_CLEAN
               \/ b_upd[res.pGrandParent] # bst_get_ptr(res.updGrandParent)
               \/ b_upd[res.pParent] # bst_get_ptr(res.updParent)
       THEN /\ done(DS_ERROR_BUSY)
            /\ UNCHANGED <<b_root, b_count, b_type, b_key, b_val, b_left, b_right, b_upd,
                           b_brk, b_ops, b_wild, b_in>>
       ELSE /\ b_ops' = pOp
            /\ b_upd' = [b_upd EXCEPT
                  ![res.pParent] = bst_make_update(pOp, BST_MARK),
                  ![res.pGrandParent] = bst_make_update(pOp, BST_CLEAN)]
            /\ b_left' = [b_left EXCEPT
                  ![res.pGrandParent] = IF bLeftOfGp /\ @ = res.pParent THEN sibling ELSE @]
            /\ b_right' = [b_right EXCEPT
                  ![res.pGrandParent] = IF ~bLeftOfGp /\ @ = res.pParent THEN sibling ELSE @]
            /\ b_count' = b_count - 1
            /\ b_in' = b_in \ {key}
            /\ done(DS_SUCCESS)
            /\ UNCHANGED <<b_root, b_type, b_key, b_val, b_brk, b_wild>>

\* ds_bintree_search(head, kv)
BstSearch(key) ==
    /\ ~b_wild
    /\ b_last' = [op |-> "search", key |-> key, ret |-> BstSearchResult(key)]
    /\ UNCHANGED <<b_root, b_count, b_type, b_key, b_val, b_left, b_right, b_upd,
                   b_brk, b_ops, b_wild, b_in, b_t>>
    /\ UNCHANGED notBstVars

\* The step-by-step thread returns ret from its call.
BstReturn(ret) ==
    /\ b_last' = [op |-> b_t.op, key |-> b_t.key, ret |-> ret]
    /\ b_t' = [BstThreadIdle EXCEPT !.busy = IF ret = DS_ERROR_BUSY THEN b_t.busy ELSE 0]

\* The step-by-step thread calls ds_bintree_insert(head, {key, value}) or
\* ds_bintree_delete(head, {key}): "int iterations = 0;".
BstCall(op, key, value) ==
    /\ ~b_wild
    /\ b_t.pc = "idle"
    /\ b_t' = [BstThreadIdle EXCEPT !.pc = "search", !.op = op, !.key = key, !.value = value]
    /\ UNCHANGED <<b_root, b_count, b_type, b_key, b_val, b_left, b_right, b_upd,
                   b_brk, b_ops, b_wild, b_in, b_last>>
    /\ UNCHANGED notBstVars

\* The step-by-step thread got DS_ERROR_BUSY and makes the same call again,
\* as the loop "for (;;)" of producer_thread does; busy counts these calls.
BstRetry ==
    /\ ~b_wild
    /\ b_t.pc = "idle"
    /\ b_last.ret = DS_ERROR_BUSY
    /\ b_last.op \in {"insert", "delete"}
    /\ b_t.busy < MaxBstRetries
    /\ b_t' = [BstThreadIdle EXCEPT !.pc = "search", !.op = b_last.op, !.key = b_last.key,
                                    !.value = 1, !.busy = b_t.busy + 1]
    /\ UNCHANGED <<b_root, b_count, b_type, b_key, b_val, b_left, b_right, b_upd,
                   b_brk, b_ops, b_wild, b_in, b_last>>
    /\ UNCHANGED notBstVars

\* ds_bintree_delete: the loop test, bst_search and the checks up to the
\* allocation of the descriptor.
BstDeleteSearch ==
    LET res == bst_search(b_t.key) IN
    /\ ~b_wild
    /\ b_t.pc = "search"
    /\ b_t.op = "delete"
    /\ IF b_t.iterations >= BST_MAX_DEPTH THEN BstReturn(DS_ERROR_BUSY) /\ UNCHANGED b_ops
       ELSE IF \/ res.pParent = NULL
               \/ res.pLeaf = NULL
               \/ res.pGrandParent = NULL
               \/ bst_is_internal(res.pLeaf)
       THEN BstReturn(DS_ERROR_BUSY) /\ UNCHANGED b_ops
       ELSE IF b_key[res.pLeaf] # b_t.key
       THEN BstReturn(DS_ERROR_NOT_FOUND) /\ UNCHANGED b_ops
       ELSE IF \/ bst_get_bits(res.updGrandParent) # BST_CLEAN
               \/ bst_get_bits(res.updParent) # BST_CLEAN
       THEN /\ b_t' = [b_t EXCEPT !.iterations = @ + 1]
            /\ UNCHANGED <<b_ops, b_last>>
       ELSE /\ b_ops' = b_ops + 1
            /\ b_t' = [b_t EXCEPT !.pc = "dflag", !.res = res, !.pOp = b_ops + 1]
            /\ UNCHANGED b_last
    /\ UNCHANGED <<b_root, b_count, b_type, b_key, b_val, b_left, b_right, b_upd,
                   b_brk, b_wild, b_in>>
    /\ UNCHANGED notBstVars

\* ds_bintree_delete: arena_atomic_cmpxchg(&res.pGrandParent->m_pUpdate,
\* bst_get_ptr(res.updGrandParent), new_up); a failed CAS ends the iteration.
BstDeleteFlag ==
    LET gp == b_t.res.pGrandParent IN
    /\ b_t.pc = "dflag"
    /\ IF b_upd[gp] = bst_get_ptr(b_t.res.updGrandParent)
       THEN /\ b_upd' = [b_upd EXCEPT ![gp] = bst_make_update(b_t.pOp, BST_DFLAG)]
            /\ b_t' = [b_t EXCEPT !.pc = "mark"]
       ELSE /\ b_t' = [b_t EXCEPT !.pc = "search", !.iterations = @ + 1]
            /\ UNCHANGED b_upd
    /\ UNCHANGED <<b_root, b_count, b_type, b_key, b_val, b_left, b_right,
                   b_brk, b_ops, b_wild, b_in, b_last>>
    /\ UNCHANGED notBstVars

\* bst_help_delete: the CAS that marks the parent; when it fails, the CAS
\* that unflags the grandparent, and the iteration ends.
BstDeleteMark ==
    LET p == b_t.res.pParent
        gp == b_t.res.pGrandParent
        expected == bst_get_ptr(b_t.res.updParent)
        marked_val == bst_make_update(b_t.pOp, BST_MARK)
    IN
    /\ b_t.pc = "mark"
    /\ IF b_upd[p] = expected \/ b_upd[p] = marked_val
       THEN /\ b_upd' = [b_upd EXCEPT ![p] = marked_val]
            /\ b_t' = [b_t EXCEPT !.pc = "splice"]
       ELSE /\ b_upd' = [b_upd EXCEPT ![gp] =
                            IF @ = bst_make_update(b_t.pOp, BST_DFLAG)
                            THEN bst_make_update(b_t.pOp, BST_CLEAN) ELSE @]
            /\ b_t' = [b_t EXCEPT !.pc = "search", !.iterations = @ + 1]
    /\ UNCHANGED <<b_root, b_count, b_type, b_key, b_val, b_left, b_right,
                   b_brk, b_ops, b_wild, b_in, b_last>>
    /\ UNCHANGED notBstVars

\* bst_help_marked: the sibling of the leaf, and bst_cas_child(gp, p,
\* sibling), which picks the child of gp by the sibling's key.
BstDeleteSplice ==
    LET p == b_t.res.pParent
        gp == b_t.res.pGrandParent
        right_child == b_right[p]
        sibling == IF right_child = b_t.res.pLeaf THEN b_left[p] ELSE right_child
        bLeft == b_key[sibling] < b_key[gp]
    IN
    /\ b_t.pc = "splice"
    /\ b_left' = [b_left EXCEPT ![gp] = IF bLeft /\ @ = p THEN sibling ELSE @]
    /\ b_right' = [b_right EXCEPT ![gp] = IF ~bLeft /\ @ = p THEN sibling ELSE @]
    /\ b_t' = [b_t EXCEPT !.pc = "dunflag"]
    /\ UNCHANGED <<b_root, b_count, b_type, b_key, b_val, b_upd,
                   b_brk, b_ops, b_wild, b_in, b_last>>
    /\ UNCHANGED notBstVars

\* bst_help_marked: the CAS that unflags the grandparent; then
\* ds_bintree_delete: arena_atomic_dec(&head->count); return DS_SUCCESS.
BstDeleteUnflag ==
    LET gp == b_t.res.pGrandParent IN
    /\ b_t.pc = "dunflag"
    /\ b_upd' = [b_upd EXCEPT ![gp] =
                    IF @ = bst_make_update(b_t.pOp, BST_DFLAG)
                    THEN bst_make_update(b_t.pOp, BST_CLEAN) ELSE @]
    /\ b_count' = b_count - 1
    /\ b_in' = b_in \ {b_t.key}
    /\ BstReturn(DS_SUCCESS)
    /\ UNCHANGED <<b_root, b_type, b_key, b_val, b_left, b_right, b_brk, b_ops, b_wild>>
    /\ UNCHANGED notBstVars

\* ds_bintree_insert: the loop test, bst_search, the checks, and the
\* allocation and set-up of the new leaf, the new internal node and the
\* descriptor, which no other thread can reach yet.
BstInsertSearch ==
    LET res == bst_search(b_t.key)
        new_leaf == b_brk + 1
        new_internal == b_brk + 2
        bNewKeyIsLess == b_t.key < b_key[res.pLeaf]
    IN
    /\ ~b_wild
    /\ b_t.pc = "search"
    /\ b_t.op = "insert"
    /\ IF b_t.iterations >= BST_MAX_DEPTH
       THEN /\ BstReturn(DS_ERROR_BUSY)
            /\ UNCHANGED <<b_type, b_key, b_val, b_left, b_right, b_brk, b_ops, b_wild, b_in>>
       ELSE IF res.nCmp
       THEN /\ IF b_type[res.pLeaf] = BST_NODE_LEAF
               THEN b_val' = [b_val EXCEPT ![res.pLeaf] = b_t.value] /\ UNCHANGED b_wild
               ELSE b_wild' = TRUE /\ UNCHANGED b_val
            /\ b_in' = b_in \cup {b_t.key}
            /\ BstReturn(DS_SUCCESS)
            /\ UNCHANGED <<b_type, b_key, b_left, b_right, b_brk, b_ops>>
       ELSE IF res.pParent = NULL \/ res.pLeaf = NULL
       THEN /\ BstReturn(DS_ERROR_BUSY)
            /\ UNCHANGED <<b_type, b_key, b_val, b_left, b_right, b_brk, b_ops, b_wild, b_in>>
       ELSE IF \/ bst_get_bits(res.updParent) # BST_CLEAN
               \/ bst_get_bits(res.updGrandParent) # BST_CLEAN
               \/ bst_get_child(res.pParent, res.bRightLeaf) # res.pLeaf
       THEN /\ b_t' = [b_t EXCEPT !.iterations = @ + 1]
            /\ UNCHANGED <<b_type, b_key, b_val, b_left, b_right, b_brk, b_ops, b_wild, b_in,
                           b_last>>
       ELSE IF new_internal > 3 + 2 * MaxBstInserts
       THEN /\ BstReturn(DS_ERROR_NOMEM)
            /\ UNCHANGED <<b_type, b_key, b_val, b_left, b_right, b_brk, b_ops, b_wild, b_in>>
       ELSE /\ b_brk' = new_internal
            /\ b_ops' = b_ops + 1
            /\ b_type' = [b_type EXCEPT
                  ![new_leaf] = BST_NODE_LEAF,
                  ![new_internal] =
                      IF bNewKeyIsLess /\ res.pGrandParent = NULL
                      THEN bst_set_infinite_key(BST_NODE_INTERNAL, 1)
                      ELSE bst_set_infinite_key(BST_NODE_INTERNAL, 0)]
            /\ b_key' = [b_key EXCEPT
                  ![new_leaf] = b_t.key,
                  ![new_internal] =
                      IF bNewKeyIsLess
                      THEN IF res.pGrandParent # NULL THEN b_key[res.pLeaf] ELSE @
                      ELSE b_t.key]
            /\ b_val' = [b_val EXCEPT ![new_leaf] = b_t.value]
            /\ b_left' = [b_left EXCEPT
                  ![new_internal] = IF bNewKeyIsLess THEN new_leaf ELSE res.pLeaf]
            /\ b_right' = [b_right EXCEPT
                  ![new_internal] = IF bNewKeyIsLess THEN res.pLeaf ELSE new_leaf]
            /\ b_t' = [b_t EXCEPT !.pc = "iflag", !.res = res, !.pOp = b_ops + 1,
                                  !.pNew = new_internal]
            /\ UNCHANGED <<b_wild, b_in, b_last>>
    /\ UNCHANGED <<b_root, b_count, b_upd>>
    /\ UNCHANGED notBstVars

\* ds_bintree_insert: arena_atomic_cmpxchg(&res.pParent->m_pUpdate, expected,
\* desired); when it fails the nodes are freed and the iteration ends.  The
\* variant stores the flag without comparing.
BstInsertFlagBlind ==
    LET p == b_t.res.pParent IN
    /\ b_t.pc = "iflag"
    /\ b_upd' = [b_upd EXCEPT ![p] = bst_make_update(b_t.pOp, BST_IFLAG)]
    /\ b_t' = [b_t EXCEPT !.pc = "child"]
    /\ UNCHANGED <<b_root, b_count, b_type, b_key, b_val, b_left, b_right,
                   b_brk, b_ops, b_wild, b_in, b_last>>
    /\ UNCHANGED notBstVars
BstInsertFlag ==
    LET p == b_t.res.pParent IN
    /\ b_t.pc = "iflag"
    /\ IF b_upd[p] = bst_get_ptr(b_t.res.updParent)
       THEN /\ b_upd' = [b_upd EXCEPT ![p] = bst_make_update(b_t.pOp, BST_IFLAG)]
            /\ b_t' = [b_t EXCEPT !.pc = "child"]
       ELSE /\ b_t' = [b_t EXCEPT !.pc = "search", !.iterations = @ + 1]
            /\ UNCHANGED b_upd
    /\ UNCHANGED <<b_root, b_count, b_type, b_key, b_val, b_left, b_right,
                   b_brk, b_ops, b_wild, b_in, b_last>>
    /\ UNCHANGED notBstVars

\* bst_help_insert: the CAS of the parent's child from pLeaf to pNew.
BstInsertChild ==
    LET p == b_t.res.pParent IN
    /\ b_t.pc = "child"
    /\ b_left' = [b_left EXCEPT ![p] =
                     IF ~b_t.res.bRightLeaf /\ @ = b_t.res.pLeaf THEN b_t.pNew ELSE @]
    /\ b_right' = [b_right EXCEPT ![p] =
                      IF b_t.res.bRightLeaf /\ @ = b_t.res.pLeaf THEN b_t.pNew ELSE @]
    /\ b_t' = [b_t EXCEPT !.pc = "iunflag"]
    /\ UNCHANGED <<b_root, b_count, b_type, b_key, b_val, b_upd,
                   b_brk, b_ops, b_wild, b_in, b_last>>
    /\ UNCHANGED notBstVars

\* bst_help_insert: the CAS that unflags the parent; then
\* ds_bintree_insert: arena_atomic_inc(&head->count); return DS_SUCCESS.
BstInsertUnflag ==
    LET p == b_t.res.pParent IN
    /\ b_t.pc = "iunflag"
    /\ b_upd' = [b_upd EXCEPT ![p] =
                    IF @ = bst_make_update(b_t.pOp, BST_IFLAG)
                    THEN bst_make_update(b_t.pOp, BST_CLEAN) ELSE @]
    /\ b_count' = b_count + 1
    /\ b_in' = b_in \cup {b_t.key}
    /\ BstReturn(DS_SUCCESS)
    /\ UNCHANGED <<b_root, b_type, b_key, b_val, b_left, b_right, b_brk, b_ops, b_wild>>
    /\ UNCHANGED notBstVars

\* One thread alone: each call starts after the one before has returned, and
\* a call that returned DS_ERROR_BUSY may be made again.
NextBstRetry ==
    \/ \E op \in {"insert", "delete"}, k \in BstKeys : BstCall(op, k, 1)
    \/ BstRetry
    \/ BstDeleteSearch
    \/ BstDeleteFlag
    \/ BstDeleteMark
    \/ BstDeleteSplice
    \/ BstDeleteUnflag
    \/ BstInsertSearch
    \/ BstInsertFlag
    \/ BstInsertChild
    \/ BstInsertUnflag

\* Whole calls of the other threads between the steps of the step-by-step
\* thread.
\* Calls on pairwise distinct keys: an insert takes a key that is not in the
\* tree and that no call in progress works on, a delete takes one of
\* BstDeleteTargets. One thread runs step by step, the others run whole calls
\* between its steps.
BstDeleteTargets == 0..(MaxBstKey - 1)

NextBstPairs ==
    \/ \E k \in BstKeys \ b_in : (b_t.pc = "idle" \/ b_t.key # k) /\ BstInsert(k, 1)
    \/ \E k \in BstDeleteTargets : (b_t.pc = "idle" \/ b_t.key # k) /\ BstDelete(k)
    \/ \E k \in BstKeys \ b_in : BstCall("insert", k, 1)
    \/ \E k \in BstDeleteTargets : BstCall("delete", k, 1)
    \/ BstDeleteSearch
    \/ BstDeleteFlag
    \/ BstDeleteMark
    \/ BstDeleteSplice
    \/ BstDeleteUnflag
    \/ BstInsertSearch
    \/ BstInsertFlag
    \/ BstInsertChild
    \/ BstInsertUnflag

\* A thread that is suspended for good right after its flag CAS succeeded:
\* ds_bintree_insert up to "if (result == expected)", with the new leaf, the
\* new internal node and the descriptor set up, and the parent left IFLAG.
\* Nothing else is flagged at that moment, so one thread at most is suspended.
BstSuspendInsert(key) ==
    LET res == bst_search(key)
        new_leaf == b_brk + 1
        new_internal == b_brk + 2
        pOp == b_ops + 1
        bNewKeyIsLess == key < b_key[res.pLeaf]
    IN
    /\ ~b_wild
    /\ \A n \in 1..b_brk : b_upd[n].state \in {BST_CLEAN, BST_MARK}
    /\ ~res.nCmp
    /\ res.pParent # NULL
    /\ res.pLeaf # NULL
    /\ bst_get_child(res.pParent, res.bRightLeaf) = res.pLeaf
    /\ new_internal <= 3 + 2 * MaxBstInserts
    /\ b_brk' = new_internal
    /\ b_ops' = pOp
    /\ b_type' = [b_type EXCEPT
          ![new_leaf] = BST_NODE_LEAF,
          ![new_internal] =
              IF bNewKeyIsLess /\ res.pGrandParent = NULL
              THEN bst_set_infinite_key(BST_NODE_INTERNAL, 1)
              ELSE bst_set_infinite_key(BST_NODE_INTERNAL, 0)]
    /\ b_key' = [b_key EXCEPT
          ![new_leaf] = key,
          ![new_internal] =
              IF bNewKeyIsLess
              THEN IF res.pGrandParent # NULL THEN b_key[res.pLeaf] ELSE @
              ELSE key]
    /\ b_val' = [b_val EXCEPT ![new_leaf] = 1]
    /\ b_left' = [b_left EXCEPT ![new_internal] = IF bNewKeyIsLess THEN new_leaf ELSE res.pLeaf]
    /\ b_right' = [b_right EXCEPT ![new_internal] = IF bNewKeyIsLess THEN res.pLeaf ELSE new_leaf]
    /\ b_upd' = [b_upd EXCEPT ![res.pParent] = bst_make_update(pOp, BST_IFLAG)]
    /\ UNCHANGED <<b_root, b_count, b_wild, b_in, b_last, b_t>>
    /\ UNCHANGED notBstVars

\* The same for ds_bintree_delete: the thread is suspended right after it
\* flagged the grandparent DFLAG, before bst_help_delete.
BstSuspendDelete(key) ==
    LET res == bst_search(key) IN
    /\ ~b_wild
    /\ \A n \in 1..b_brk : b_upd[n].state \in {BST_CLEAN, BST_MARK}
    /\ res.pParent # NULL
    /\ res.pLeaf # NULL
    /\ res.pGrandParent # NULL
    /\ ~bst_is_internal(res.pLeaf)
    /\ b_key[res.pLeaf] = key
    /\ b_ops' = b_ops + 1
    /\ b_upd' = [b_upd EXCEPT ![res.pGrandParent] = bst_make_update(b_ops + 1, BST_DFLAG)]
    /\ UNCHANGED <<b_root, b_count, b_type, b_key, b_val, b_left, b_right, b_brk, b_wild,
                   b_in, b_last, b_t>>
    /\ UNCHANGED notBstVars

\* The nodes a suspended thread holds flagged: flagged IFLAG or DFLAG with a
\* descriptor that is not the running thread's.
BstSuspended ==
    {n \in 1..b_brk : b_upd[n].state \in {BST_IFLAG, BST_DFLAG} /\ b_upd[n].op # b_t.pOp}

\* One thread runs its calls step by step, one after the other; another
\* thread starts a call, flags a node and is never scheduled again.
NextBstSuspend ==
    \/ \E op \in {"insert", "delete"}, k \in BstKeys : BstCall(op, k, 1)
    \/ \E k \in BstKeys : BstSuspendInsert(k)
    \/ \E k \in BstKeys : BstSuspendDelete(k)
    \/ BstDeleteSearch
    \/ BstDeleteFlag
    \/ BstDeleteMark
    \/ BstDeleteSplice
    \/ BstDeleteUnflag
    \/ BstInsertSearch
    \/ BstInsertFlag
    \/ BstInsertChild
    \/ BstInsertUnflag

NextBstThreads ==
    \/ \E k \in BstKeys : BstInsert(k, 1)
    \/ \E k \in BstKeys : BstDelete(k)
    \/ \E k \in BstKeys : BstSearch(k)
    \/ \E op \in {"insert", "delete"}, k \in BstKeys : BstCall(op, k, 1)
    \/ BstDeleteSearch
    \/ BstDeleteFlag
    \/ BstDeleteMark
    \/ BstDeleteSplice
    \/ BstDeleteUnflag
    \/ BstInsertSearch
    \/ BstInsertFlag
    \/ BstInsertChild
    \/ BstInsertUnflag

\* ds_bintree_verify: the depth-first walk.  stack is "stack[]" up to
\* stack_top; a child that is no leaf is pushed while "stack_top <
\* BST_MAX_DEPTH - 1", else dropped; the walk ends when the stack is empty or
\* after BST_MAX_DEPTH * 4 nodes.
RECURSIVE BstVerifyLoop(_, _, _)
BstVerifyLoop(stack, leaf_count, iterations) ==
    IF stack # <<>> /\ iterations < BST_MAX_DEPTH * 4
    THEN LET node == stack[Len(stack)]
             popped == SubSeq(stack, 1, Len(stack) - 1)
             left_ptr == b_left[node]
             right_ptr == b_right[node]
             counts(leaf) == IF b_type[leaf] = BST_NODE_LEAF /\ b_key[leaf] < BST_SENTINEL_KEY1 THEN 1 ELSE 0
             push(s, child) == IF b_type[child] # BST_NODE_LEAF /\ Len(s) < BST_MAX_DEPTH - 1 THEN Append(s, child) ELSE s
         IN  IF left_ptr = NULL \/ right_ptr = NULL
             THEN [ret |-> DS_ERROR_CORRUPT, leaf_count |-> leaf_count]
             ELSE BstVerifyLoop(push(push(popped, left_ptr), right_ptr),
                                leaf_count + counts(left_ptr) + counts(right_ptr),
                                iterations + 1)
    ELSE [ret |-> DS_SUCCESS, leaf_count |-> leaf_count]

\* ds_bintree_verify(head): the result code.
BstVerifyResult ==
    LET walk == BstVerifyLoop(<<b_root>>, 0, 0) IN
    IF b_root = NULL THEN DS_ERROR_INVALID
    ELSE IF walk.ret # DS_SUCCESS THEN walk.ret
    ELSE IF walk.leaf_count # b_count THEN DS_ERROR_CORRUPT
    ELSE DS_SUCCESS

NextBst ==
    \/ \E k \in BstKeys, v \in BstValues : BstInsert(k, v)
    \/ \E k \in BstKeys : BstDelete(k)
    \/ \E k \in BstKeys : BstSearch(k)

\* The keys outside BstKeys: the smallest key and the two sentinel keys.
BstEdgeKeys == {0, BST_SENTINEL_KEY1, BST_SENTINEL_KEY2}

\* The calls of NextBst, and insert and delete called with the keys of
\* BstEdgeKeys as well.
NextBstAnyKey ==
    \/ NextBst
    \/ \E k \in BstEdgeKeys, v \in BstValues : BstInsert(k, v)
    \/ \E k \in BstEdgeKeys : BstDelete(k)

\* Inserts alone, each of a key not inserted before, until the arena is
\* used up.
NextBstDeep == \E k \in BstDeepKeys \ b_in : ds_bintree_insert(k, 1, MaxBstNodes)

(***************************************************************************)
(*                     FOLLY SPSC RING (ds_folly_spsc.h)                   *)
(*                                                                         *)
(* One producer thread runs ds_spsc_insert, one consumer thread runs       *)
(* ds_spsc_delete; one action is one access to the shared head or ring.    *)
(***************************************************************************)

\* Bounds of the ring model: the largest size given to ds_spsc_init, the
\* keys and values inserted, and the number of successful inserts.
MaxFollySize == 3
MaxFollyKey == 2
MaxFollyValue == 1
MaxFollyItems == 3

FollySizes == 0..MaxFollySize
FollyKeys == 1..MaxFollyKey
FollyValues == 1..MaxFollyValue
FollySlots == 0..(MaxFollySize - 1)

FollyIdle == [pc |-> "idle", idx |-> 0, next_record |-> 0, key |-> 0, value |-> 0,
              ret |-> DS_SUCCESS]

\* The head before ds_spsc_init, the two threads not yet started.
FollyInit ==
    /\ f_size = 0
    /\ f_write = 0
    /\ f_read = 0
    /\ f_rec = [s \in FollySlots |-> [key |-> 0, value |-> 0]]
    /\ f_p = FollyIdle
    /\ f_c = FollyIdle
    /\ f_ins = <<>>
    /\ f_del = <<>>

\* A __u32 is held as the int with the same 32 bits: "a < b" on two __u32.
U32Less(a, b) == IF (a < 0) = (b < 0) THEN a < b ELSE b < 0

\* "(int)(a + s)" for an int a and a __u32 s: the sum is taken modulo 2^32.
U32AddToInt(a, s) ==
    IF a < 0 /\ s < 0 /\ a < (-(2 ^ 30) - 2 ^ 30) - s
    THEN ((a + 2 ^ 30) + 2 ^ 30) + ((s + 2 ^ 30) + 2 ^ 30)
    ELSE a + s

\* Sizes beyond the small rings: the first size whose array of 16-byte
\* records no longer fits a page, and the __u32 0x80000002.
FollyLargeSizes == {PAGE_SIZE \div 16, (2 - 2 ^ 30) - 2 ^ 30}

\* "size * sizeof(struct ds_kv)" as the unsigned int parameter of
\* bpf_arena_alloc: the low 32 bits of the product, a record being two __u64.
FollyRecordsBytes(size) == (size % (2 ^ 28)) * 16

\* bpf_arena_alloc(bytes) returns NULL: "size = round_up(size, 8);
\* if (size >= PAGE_SIZE - 8) return NULL;" (the arena has a page to give).
FollyAllocFails(bytes) == round_up(bytes, 8) >= PAGE_SIZE - 8

\* ds_spsc_init(head, size), once, before the threads start.
FollySpscInit(size) ==
    /\ f_size = 0
    /\ f_p.pc = "idle"
    /\ IF U32Less(size, 2)
       THEN f_p' = [f_p EXCEPT !.ret = DS_ERROR_INVALID] /\ UNCHANGED f_size
       ELSE IF FollyAllocFails(FollyRecordsBytes(size))
       THEN f_p' = [f_p EXCEPT !.ret = DS_ERROR_NOMEM] /\ UNCHANGED f_size
       ELSE f_p' = [f_p EXCEPT !.ret = DS_SUCCESS] /\ f_size' = size
    /\ f_write' = 0
    /\ f_read' = 0
    /\ UNCHANGED <<f_rec, f_c, f_ins, f_del>>
    /\ UNCHANGED notFollyVars

\* "next_record = idx + 1; if (next_record >= head->size) next_record = 0;"
FollyNextRecord(idx) == IF ~U32Less(idx + 1, f_size) THEN 0 ELSE idx + 1

\* ds_spsc_verify(head): the result it returns in the current state.
FollyVerifyResult ==
    LET r == f_read
        w == f_write
        s == f_size
        size_guess == IF w - r < 0 THEN U32AddToInt(w - r, s) ELSE w - r
    IN  IF ~U32Less(r, s) \/ ~U32Less(w, s) THEN DS_ERROR_CORRUPT
        ELSE IF size_guess > s - 1 THEN DS_ERROR_CORRUPT
        ELSE DS_SUCCESS

\* The producer's test "next_record != current_read".
FollyHasRoomMutant(next_record, current_read) == TRUE
FollyHasRoomOrdered(next_record, current_read) == next_record > current_read
FollyHasRoom(next_record, current_read) == next_record # current_read

\* ds_spsc_insert: READ_ONCE(head->write_idx.idx) and next_record.
FollyInsertLoadWrite(key, value) ==
    /\ f_size # 0
    /\ f_p.pc = "idle"
    /\ Len(f_ins) < MaxFollyItems
    /\ f_p' = [pc |-> "load_read", idx |-> f_write, next_record |-> FollyNextRecord(f_write),
               key |-> key, value |-> value, ret |-> f_p.ret]
    /\ UNCHANGED <<f_size, f_write, f_read, f_rec, f_c, f_ins, f_del>>
    /\ UNCHANGED notFollyVars

\* ds_spsc_insert: smp_load_acquire(&head->read_idx.idx) and the full test.
FollyInsertLoadRead ==
    /\ f_p.pc = "load_read"
    /\ f_p' = IF FollyHasRoom(f_p.next_record, f_read)
              THEN [f_p EXCEPT !.pc = "store_key"]
              ELSE [f_p EXCEPT !.pc = "idle", !.ret = DS_ERROR_FULL]
    /\ UNCHANGED <<f_size, f_write, f_read, f_rec, f_c, f_ins, f_del>>
    /\ UNCHANGED notFollyVars

\* ds_spsc_insert: node->key = key.
FollyInsertStoreKey ==
    /\ f_p.pc = "store_key"
    /\ f_rec' = [f_rec EXCEPT ![f_p.idx].key = f_p.key]
    /\ f_p' = [f_p EXCEPT !.pc = "store_value"]
    /\ UNCHANGED <<f_size, f_write, f_read, f_c, f_ins, f_del>>
    /\ UNCHANGED notFollyVars

\* ds_spsc_insert: node->value = value.
FollyInsertStoreValue ==
    /\ f_p.pc = "store_value"
    /\ f_rec' = [f_rec EXCEPT ![f_p.idx].value = f_p.value]
    /\ f_p' = [f_p EXCEPT !.pc = "commit"]
    /\ UNCHANGED <<f_size, f_write, f_read, f_c, f_ins, f_del>>
    /\ UNCHANGED notFollyVars

\* ds_spsc_insert: smp_store_release(&head->write_idx.idx, next_record).
FollyInsertCommit ==
    /\ f_p.pc = "commit"
    /\ f_write' = f_p.next_record
    /\ f_ins' = Append(f_ins, [key |-> f_p.key, value |-> f_p.value])
    /\ f_p' = [f_p EXCEPT !.pc = "idle", !.ret = DS_SUCCESS]
    /\ UNCHANGED <<f_size, f_read, f_rec, f_c, f_del>>
    /\ UNCHANGED notFollyVars

\* ds_spsc_delete: READ_ONCE(head->read_idx.idx).  key and value are the
\* caller's *data, which keeps what it held until the call writes it.
FollyDeleteLoadRead ==
    /\ f_size # 0
    /\ f_c.pc = "idle"
    /\ f_c' = [pc |-> "load_write", idx |-> f_read, next_record |-> FollyNextRecord(f_read),
               key |-> f_c.key, value |-> f_c.value, ret |-> f_c.ret]
    /\ UNCHANGED <<f_size, f_write, f_read, f_rec, f_p, f_ins, f_del>>
    /\ UNCHANGED notFollyVars

\* ds_spsc_delete: smp_load_acquire(&head->write_idx.idx) and the empty test.
FollyDeleteLoadWrite ==
    /\ f_c.pc = "load_write"
    /\ f_c' = IF f_c.idx = f_write
              THEN [f_c EXCEPT !.pc = "idle", !.ret = DS_ERROR_NOT_FOUND]
              ELSE [f_c EXCEPT !.pc = "load_key"]
    /\ UNCHANGED <<f_size, f_write, f_read, f_rec, f_p, f_ins, f_del>>
    /\ UNCHANGED notFollyVars

\* ds_spsc_delete: data->key = node->key.
FollyDeleteLoadKey ==
    /\ f_c.pc = "load_key"
    /\ f_c' = [f_c EXCEPT !.pc = "load_value", !.key = f_rec[f_c.idx].key]
    /\ UNCHANGED <<f_size, f_write, f_read, f_rec, f_p, f_ins, f_del>>
    /\ UNCHANGED notFollyVars

\* ds_spsc_delete: data->value = node->value.
FollyDeleteLoadValue ==
    /\ f_c.pc = "load_value"
    /\ f_c' = [f_c EXCEPT !.pc = "commit", !.value = f_rec[f_c.idx].value]
    /\ UNCHANGED <<f_size, f_write, f_read, f_rec, f_p, f_ins, f_del>>
    /\ UNCHANGED notFollyVars

\* ds_spsc_delete: smp_store_release(&head->read_idx.idx, next_record).
FollyDeleteCommit ==
    /\ f_c.pc = "commit"
    /\ f_read' = f_c.next_record
    /\ f_del' = Append(f_del, [key |-> f_c.key, value |-> f_c.value])
    /\ f_c' = [f_c EXCEPT !.pc = "idle", !.ret = DS_SUCCESS]
    /\ UNCHANGED <<f_size, f_write, f_rec, f_p, f_ins>>
    /\ UNCHANGED notFollyVars

NextFolly ==
    \/ \E size \in FollySizes : FollySpscInit(size)
    \/ \E k \in FollyKeys, v \in FollyValues : FollyInsertLoadWrite(k, v)
    \/ FollyInsertLoadRead
    \/ FollyInsertStoreKey
    \/ FollyInsertStoreValue
    \/ FollyInsertCommit
    \/ FollyDeleteLoadRead
    \/ FollyDeleteLoadWrite
    \/ FollyDeleteLoadKey
    \/ FollyDeleteLoadValue
    \/ FollyDeleteCommit

\* The ring as above, ds_spsc_init being called with any of the sizes.
NextFollySizes ==
    \/ NextFolly
    \/ \E size \in FollyLargeSizes : FollySpscInit(size)

(***************************************************************************)
(*      CK SPSC RING (ds_ck_ring_spsc.h) UNDER ITS ORDERING TEST           *)
(*                                                                         *)
(* The producer thread of usertest_ck_ring_spsc.c inserts keys 1, 2, ...   *)
(* and retries on DS_ERROR_FULL; the consumer thread pops and compares     *)
(* each key with expected_key.  One action is one access to the shared     *)
(* head or ring.                                                           *)
(***************************************************************************)

\* Bounds of the ring model: the capacities 2^1 .. 2^MaxRingLog2 given to
\* ds_ck_ring_spsc_init, the values inserted, and the items produced.
MaxRingLog2 == 2
MaxRingValue == 2
MaxRingItems == 3

RingCapacities == 0..(2 ^ MaxRingLog2)
RingValues == 1..MaxRingValue
RingSlots == 0..(2 ^ MaxRingLog2 - 1)

\* x & y on unsigned integers.
RECURSIVE RingAnd(_, _)
RingAnd(x, y) ==
    IF x = 0 \/ y = 0 THEN 0
    ELSE (x % 2) * (y % 2) + 2 * RingAnd(x \div 2, y \div 2)

\* ds_ck_ring_spsc_is_power_of_two
ds_ck_ring_spsc_is_power_of_two(value) == value >= 2 /\ RingAnd(value, value - 1) = 0

RingIdleProducer == [pc |-> "idle", consumer |-> 0, producer |-> 0, next |-> 0,
                     key |-> 0, value |-> 0, i |-> 0, ret |-> DS_SUCCESS]
RingIdleConsumer == [pc |-> "idle", consumer |-> 0, producer |-> 0, key |-> 0, value |-> 0,
                     expected_key |-> 1, consumed |-> 0, ret |-> DS_SUCCESS]

\* The head before ds_ck_ring_spsc_init (struct ctx c = {0}), the two
\* threads of the test not yet started.
RingInit ==
    /\ r_capacity = 0
    /\ r_mask = 0
    /\ r_c_head = 0
    /\ r_p_tail = 0
    /\ r_slots = [s \in RingSlots |-> [key |-> 0, value |-> 0]]
    /\ r_p = RingIdleProducer
    /\ r_c = RingIdleConsumer
    /\ r_failures = 0
    /\ r_pop = <<>>

\* ds_ck_ring_spsc_init(head, capacity), once, before the threads start.
RingSpscInit(capacity) ==
    /\ r_capacity = 0
    /\ r_p.pc = "idle"
    /\ IF ~ds_ck_ring_spsc_is_power_of_two(capacity)
       THEN /\ r_p' = [r_p EXCEPT !.ret = DS_ERROR_INVALID]
            /\ UNCHANGED <<r_capacity, r_mask>>
       ELSE /\ r_p' = [r_p EXCEPT !.ret = DS_SUCCESS]
            /\ r_capacity' = capacity
            /\ r_mask' = capacity - 1
    /\ UNCHANGED <<r_c_head, r_p_tail, r_slots, r_c, r_failures, r_pop>>
    /\ UNCHANGED notRingVars

\* The producer's test "next == consumer".
RingIsFullMutant(next, consumer) == FALSE
RingIsFull(next, consumer) == next = consumer

\* producer_thread calls ds_ck_ring_spsc_insert(q, i + 1, now):
\* smp_load_acquire(&head->c_head), head->p_tail, next, and the full test.
RingInsertLoad(value) ==
    /\ r_capacity # 0
    /\ r_p.pc = "idle"
    /\ r_p.i < MaxRingItems
    /\ LET next == RingAnd(r_p_tail + 1, r_mask) IN
       r_p' = IF RingIsFull(next, r_c_head)
              THEN [r_p EXCEPT !.consumer = r_c_head, !.producer = r_p_tail, !.next = next,
                               !.key = r_p.i + 1, !.value = value, !.ret = DS_ERROR_FULL]
              ELSE [r_p EXCEPT !.pc = "store_key", !.consumer = r_c_head,
                               !.producer = r_p_tail, !.next = next,
                               !.key = r_p.i + 1, !.value = value]
    /\ UNCHANGED <<r_capacity, r_mask, r_c_head, r_p_tail, r_slots, r_c, r_failures, r_pop>>
    /\ UNCHANGED notRingVars

\* ds_ck_ring_spsc_insert: slot->key = key.
RingInsertStoreKey ==
    /\ r_p.pc = "store_key"
    /\ r_slots' = [r_slots EXCEPT ![r_p.producer].key = r_p.key]
    /\ r_p' = [r_p EXCEPT !.pc = "store_value"]
    /\ UNCHANGED <<r_capacity, r_mask, r_c_head, r_p_tail, r_c, r_failures, r_pop>>
    /\ UNCHANGED notRingVars

\* ds_ck_ring_spsc_insert: slot->value = value.
RingInsertStoreValue ==
    /\ r_p.pc = "store_value"
    /\ r_slots' = [r_slots EXCEPT ![r_p.producer].value = r_p.value]
    /\ r_p' = [r_p EXCEPT !.pc = "commit"]
    /\ UNCHANGED <<r_capacity, r_mask, r_c_head, r_p_tail, r_c, r_failures, r_pop>>
    /\ UNCHANGED notRingVars

\* ds_ck_ring_spsc_insert: smp_store_release(&head->p_tail, next); the
\* producer thread then goes on to its next item.
RingInsertCommit ==
    /\ r_p.pc = "commit"
    /\ r_p_tail' = r_p.next
    /\ r_p' = [r_p EXCEPT !.pc = "idle", !.i = r_p.i + 1, !.ret = DS_SUCCESS]
    /\ UNCHANGED <<r_capacity, r_mask, r_c_head, r_slots, r_c, r_failures, r_pop>>
    /\ UNCHANGED notRingVars

\* consumer_thread calls ds_ck_ring_spsc_pop: head->c_head,
\* smp_load_acquire(&head->p_tail), and the empty test.
RingDeleteLoad ==
    /\ r_capacity # 0
    /\ r_c.pc = "idle"
    /\ r_c.consumed < MaxRingItems
    /\ r_c' = IF r_c_head = r_p_tail
              THEN [r_c EXCEPT !.consumer = r_c_head, !.producer = r_p_tail,
                               !.ret = DS_ERROR_NOT_FOUND]
              ELSE [r_c EXCEPT !.pc = "load_key", !.consumer = r_c_head,
                               !.producer = r_p_tail]
    /\ UNCHANGED <<r_capacity, r_mask, r_c_head, r_p_tail, r_slots, r_p, r_failures, r_pop>>
    /\ UNCHANGED notRingVars

\* ds_ck_ring_spsc_delete: out->key = slot->key.
RingDeleteLoadKey ==
    /\ r_c.pc = "load_key"
    /\ r_c' = [r_c EXCEPT !.pc = "load_value", !.key = r_slots[r_c.consumer].key]
    /\ UNCHANGED <<r_capacity, r_mask, r_c_head, r_p_tail, r_slots, r_p, r_failures, r_pop>>
    /\ UNCHANGED notRingVars

\* ds_ck_ring_spsc_delete: out->value = slot->value.
RingDeleteLoadValue ==
    /\ r_c.pc = "load_value"
    /\ r_c' = [r_c EXCEPT !.pc = "commit", !.value = r_slots[r_c.consumer].value]
    /\ UNCHANGED <<r_capacity, r_mask, r_c_head, r_p_tail, r_slots, r_p, r_failures, r_pop>>
    /\ UNCHANGED notRingVars

\* ds_ck_ring_spsc_delete: smp_store_release(&head->c_head, next); the
\* consumer thread then counts the item, compares its key with
\* expected_key and increments expected_key.
RingDeleteCommit ==
    /\ r_c.pc = "commit"
    /\ r_c_head' = RingAnd(r_c.consumer + 1, r_mask)
    /\ r_failures' = IF r_c.key # r_c.expected_key THEN r_failures + 1 ELSE r_failures
    /\ r_pop' = Append(r_pop, r_c.key)
    /\ r_c' = [r_c EXCEPT !.pc = "idle", !.expected_key = r_c.expected_key + 1,
                          !.consumed = r_c.consumed + 1, !.ret = DS_SUCCESS]
    /\ UNCHANGED <<r_capacity, r_mask, r_p_tail, r_slots, r_p>>
    /\ UNCHANGED notRingVars

NextRing ==
    \/ \E capacity \in RingCapacities : RingSpscInit(capacity)
    \/ \E v \in RingValues : RingInsertLoad(v)
    \/ RingInsertStoreKey
    \/ RingInsertStoreValue
    \/ RingInsertCommit
    \/ RingDeleteLoad
    \/ RingDeleteLoadKey
    \/ RingDeleteLoadValue
    \/ RingDeleteCommit

(***************************************************************************)
(*                   CK SPSC FIFO (ds_ck_fifo_spsc.h)                      *)
(*                                                                         *)
(* One producer thread runs ds_ck_fifo_spsc_insert, one consumer thread    *)
(* runs ds_ck_fifo_spsc_delete; one action is one access to memory the     *)
(* other thread can reach.                                                 *)
(***************************************************************************)

\* Bounds of the FIFO model: the entries the arena has room for (the stub
\* included), the keys and values inserted, and the number of inserts.
MaxFifoEntries == 3
MaxFifoKey == 2
MaxFifoValue == 1
MaxFifoItems == 3

FifoEntries == 1..MaxFifoEntries
FifoKeys == 1..MaxFifoKey
FifoValues == 1..MaxFifoValue

FifoIdleProducer == [pc |-> "idle", entry |-> NULL, key |-> 0, value |-> 0, tail |-> NULL,
                     ret |-> DS_SUCCESS]
FifoIdleConsumer == [pc |-> "idle", entry |-> NULL, value |-> NULL, key |-> 0, val |-> 0,
                     seen |-> NULL, ret |-> DS_SUCCESS]

\* ds_ck_fifo_spsc_init with ds_ck_fifo_spsc_fifo_init: the stub is the
\* first entry the allocator hands out.
FifoInit ==
    /\ k_head = 1
    /\ k_tail = 1
    /\ k_snapshot = 1
    /\ k_garbage = 1
    /\ k_value = [e \in FifoEntries |-> NULL]
    /\ k_next = [e \in FifoEntries |-> NULL]
    /\ k_kv = [e \in FifoEntries |-> [key |-> 0, value |-> 0]]
    /\ k_brk = 1
    /\ k_p = FifoIdleProducer
    /\ k_c = FifoIdleConsumer
    /\ k_ins = <<>>
    /\ k_del = <<>>

\* ds_ck_fifo_spsc_recycle, refreshing the snapshot from the tail instead
\* of the head.
FifoRecycleFromTail(head_snapshot, garbage, head) ==
    LET snapshot == IF head_snapshot = garbage THEN k_tail ELSE head_snapshot IN
    IF snapshot = garbage
    THEN [entry |-> NULL, head_snapshot |-> snapshot, garbage |-> garbage]
    ELSE [entry |-> garbage, head_snapshot |-> snapshot, garbage |-> k_next[garbage]]

\* ds_ck_fifo_spsc_recycle: the entry it returns and the head_snapshot and
\* garbage it leaves, given the fifo->head it reads.
ds_ck_fifo_spsc_recycle(head_snapshot, garbage, head) ==
    LET snapshot == IF head_snapshot = garbage THEN head ELSE head_snapshot IN
    IF snapshot = garbage
    THEN [entry |-> NULL, head_snapshot |-> snapshot, garbage |-> garbage]
    ELSE [entry |-> garbage, head_snapshot |-> snapshot, garbage |-> k_next[garbage]]

\* ds_ck_fifo_spsc_insert: recycle an entry, else allocate one.
FifoInsertGetEntry(key, value) ==
    LET r == ds_ck_fifo_spsc_recycle(k_snapshot, k_garbage, k_head) IN
    /\ k_p.pc = "idle"
    /\ Len(k_ins) < MaxFifoItems
    /\ k_snapshot' = r.head_snapshot
    /\ k_garbage' = r.garbage
    /\ IF r.entry # NULL
       THEN /\ k_p' = [k_p EXCEPT !.pc = "store_key", !.entry = r.entry,
                                  !.key = key, !.value = value]
            /\ UNCHANGED k_brk
       ELSE IF k_brk < MaxFifoEntries
       THEN /\ k_p' = [k_p EXCEPT !.pc = "store_key", !.entry = k_brk + 1,
                                  !.key = key, !.value = value]
            /\ k_brk' = k_brk + 1
       ELSE /\ k_p' = [k_p EXCEPT !.entry = NULL, !.key = key, !.value = value,
                                  !.ret = DS_ERROR_NOMEM]
            /\ UNCHANGED k_brk
    /\ UNCHANGED <<k_head, k_tail, k_value, k_next, k_kv, k_c, k_ins, k_del>>
    /\ UNCHANGED notFifoVars

\* ds_ck_fifo_spsc_insert: WRITE_ONCE(entry->kv.key, key).
FifoInsertStoreKey ==
    /\ k_p.pc = "store_key"
    /\ k_kv' = [k_kv EXCEPT ![k_p.entry].key = k_p.key]
    /\ k_p' = [k_p EXCEPT !.pc = "store_value"]
    /\ UNCHANGED <<k_head, k_tail, k_snapshot, k_garbage, k_value, k_next, k_brk, k_c,
                   k_ins, k_del>>
    /\ UNCHANGED notFifoVars

\* ds_ck_fifo_spsc_insert: WRITE_ONCE(entry->kv.value, value).
FifoInsertStoreValue ==
    /\ k_p.pc = "store_value"
    /\ k_kv' = [k_kv EXCEPT ![k_p.entry].value = k_p.value]
    /\ k_p' = [k_p EXCEPT !.pc = "store_payload"]
    /\ UNCHANGED <<k_head, k_tail, k_snapshot, k_garbage, k_value, k_next, k_brk, k_c,
                   k_ins, k_del>>
    /\ UNCHANGED notFifoVars

\* ds_ck_fifo_spsc_enqueue: entry->value = value (the payload, &entry->kv).
FifoEnqueueStorePayload ==
    /\ k_p.pc = "store_payload"
    /\ k_value' = [k_value EXCEPT ![k_p.entry] = k_p.entry]
    /\ k_p' = [k_p EXCEPT !.pc = "store_next"]
    /\ UNCHANGED <<k_head, k_tail, k_snapshot, k_garbage, k_next, k_kv, k_brk, k_c,
                   k_ins, k_del>>
    /\ UNCHANGED notFifoVars

\* ds_ck_fifo_spsc_enqueue: entry->next = NULL; tail = READ_ONCE(fifo->tail).
FifoEnqueueStoreNext ==
    /\ k_p.pc = "store_next"
    /\ k_next' = [k_next EXCEPT ![k_p.entry] = NULL]
    /\ k_p' = [k_p EXCEPT !.pc = "link", !.tail = k_tail]
    /\ UNCHANGED <<k_head, k_tail, k_snapshot, k_garbage, k_value, k_kv, k_brk, k_c,
                   k_ins, k_del>>
    /\ UNCHANGED notFifoVars

\* ds_ck_fifo_spsc_enqueue: smp_store_release(&tail->next, entry).
FifoEnqueueLink ==
    /\ k_p.pc = "link"
    /\ k_next' = [k_next EXCEPT ![k_p.tail] = k_p.entry]
    /\ k_ins' = Append(k_ins, [key |-> k_p.key, value |-> k_p.value])
    /\ k_p' = [k_p EXCEPT !.pc = "store_tail"]
    /\ UNCHANGED <<k_head, k_tail, k_snapshot, k_garbage, k_value, k_kv, k_brk, k_c, k_del>>
    /\ UNCHANGED notFifoVars

\* ds_ck_fifo_spsc_enqueue: fifo->tail = entry; insert returns DS_SUCCESS.
FifoEnqueueStoreTail ==
    /\ k_p.pc = "store_tail"
    /\ k_tail' = k_p.entry
    /\ k_p' = [k_p EXCEPT !.pc = "idle", !.ret = DS_SUCCESS]
    /\ UNCHANGED <<k_head, k_snapshot, k_garbage, k_value, k_next, k_kv, k_brk, k_c,
                   k_ins, k_del>>
    /\ UNCHANGED notFifoVars

\* ds_ck_fifo_spsc_dequeue: head = READ_ONCE(fifo->head);
\* entry = smp_load_acquire(&head->next); empty when entry is NULL.
FifoDequeueLoadNext ==
    /\ k_c.pc = "idle"
    /\ k_c' = IF k_next[k_head] = NULL
              THEN [k_c EXCEPT !.entry = NULL, !.seen = k_next[k_head],
                               !.ret = DS_ERROR_NOT_FOUND]
              ELSE [k_c EXCEPT !.pc = "load_payload", !.entry = k_next[k_head],
                               !.seen = k_next[k_head]]
    /\ UNCHANGED <<k_head, k_tail, k_snapshot, k_garbage, k_value, k_next, k_kv, k_brk, k_p,
                   k_ins, k_del>>
    /\ UNCHANGED notFifoVars

\* ds_ck_fifo_spsc_dequeue: *value_out = READ_ONCE(entry->value).
FifoDequeueLoadPayload ==
    /\ k_c.pc = "load_payload"
    /\ k_c' = [k_c EXCEPT !.pc = "store_head", !.value = k_value[k_c.entry]]
    /\ UNCHANGED <<k_head, k_tail, k_snapshot, k_garbage, k_value, k_next, k_kv, k_brk, k_p,
                   k_ins, k_del>>
    /\ UNCHANGED notFifoVars

\* ds_ck_fifo_spsc_dequeue: smp_store_release(&fifo->head, entry); then
\* ds_ck_fifo_spsc_delete returns DS_ERROR_CORRUPT on a NULL payload.
FifoDequeueStoreHead ==
    /\ k_c.pc = "store_head"
    /\ k_head' = k_c.entry
    /\ k_c' = IF k_c.value = NULL
              THEN [k_c EXCEPT !.pc = "idle", !.ret = DS_ERROR_CORRUPT]
              ELSE [k_c EXCEPT !.pc = "load_key"]
    /\ UNCHANGED <<k_tail, k_snapshot, k_garbage, k_value, k_next, k_kv, k_brk, k_p,
                   k_ins, k_del>>
    /\ UNCHANGED notFifoVars

\* ds_ck_fifo_spsc_delete: out->key = READ_ONCE(payload->key).
FifoDeleteLoadKey ==
    /\ k_c.pc = "load_key"
    /\ k_c' = [k_c EXCEPT !.pc = "load_value", !.key = k_kv[k_c.value].key]
    /\ UNCHANGED <<k_head, k_tail, k_snapshot, k_garbage, k_value, k_next, k_kv, k_brk, k_p,
                   k_ins, k_del>>
    /\ UNCHANGED notFifoVars

\* ds_ck_fifo_spsc_delete: out->value = READ_ONCE(payload->value); returns
\* DS_SUCCESS.
FifoDeleteLoadValue ==
    /\ k_c.pc = "load_value"
    /\ k_del' = Append(k_del, [key |-> k_c.key, value |-> k_kv[k_c.value].value])
    /\ k_c' = [k_c EXCEPT !.pc = "idle", !.val = k_kv[k_c.value].value, !.ret = DS_SUCCESS]
    /\ UNCHANGED <<k_head, k_tail, k_snapshot, k_garbage, k_value, k_next, k_kv, k_brk, k_p,
                   k_ins>>
    /\ UNCHANGED notFifoVars

NextFifo ==
    \/ \E k \in FifoKeys, v \in FifoValues : FifoInsertGetEntry(k, v)
    \/ FifoInsertStoreKey
    \/ FifoInsertStoreValue
    \/ FifoEnqueueStorePayload
    \/ FifoEnqueueStoreNext
    \/ FifoEnqueueLink
    \/ FifoEnqueueStoreTail
    \/ FifoDequeueLoadNext
    \/ FifoDequeueLoadPayload
    \/ FifoDequeueStoreHead
    \/ FifoDeleteLoadKey
    \/ FifoDeleteLoadValue

(***************************************************************************)
(*                 VYUKOV BOUNDED MPMC QUEUE (ds_vyukhov.h)                *)
(*                                                                         *)
(* Several producer threads run ds_vyukhov_insert, several consumer        *)
(* threads run ds_vyukhov_delete; one action is one access to the shared   *)
(* head or buffer.                                                         *)
(***************************************************************************)

\* Bounds of the queue model: the threads, the capacity 2^MaxVyLog2, the
\* keys and values inserted, and the number of insert calls.
MaxVyProducers == 2
MaxVyConsumers == 2
MaxVyLog2 == 1
MaxVyKey == 2
MaxVyValue == 1
MaxVyItems == 3

DS_VYUKHOV_MAX_RETRIES == 100

VyProducers == 1..MaxVyProducers
VyConsumers == 1..MaxVyConsumers
VyCapacity == 2 ^ MaxVyLog2
VyIndexes == 0..(VyCapacity - 1)
VyKeys == 1..MaxVyKey
VyValues == 1..MaxVyValue
VyPositions == 0..(MaxVyItems - 1)

\* A thread outside a call: its locals are dead, ret is what the last
\* call returned ("none" before the first call and during a call).
VyReturn(ret) == [pc |-> "idle", pos |-> 0, retries |-> 0, key |-> 0, value |-> 0, ret |-> ret]

\* History: how many positions, counted from 0, are all in the set done.
VyPrefix(done) == CHOOSE p \in 0..MaxVyItems : (0..(p - 1)) \subseteq done /\ p \notin done
VyNothingSeen == [reserved |-> 0, stored |-> 0]

\* ds_vyukhov_init(head, capacity) returning DS_SUCCESS.
VyInit ==
    /\ v_enqueue_pos = 0
    /\ v_dequeue_pos = 0
    /\ v_mask = VyCapacity - 1
    /\ v_count = 0
    /\ v_buffer = [i \in VyIndexes |-> [sequence |-> i, key |-> 0, value |-> 0]]
    /\ v_p = [t \in VyProducers |-> VyReturn("none")]
    /\ v_c = [t \in VyConsumers |-> VyReturn("none")]
    /\ v_put = [p \in VyPositions |-> <<>>]
    /\ v_got = [p \in VyPositions |-> <<>>]
    /\ v_pub = {}
    /\ v_rel = {}
    /\ v_calls = 0
    /\ v_seen = [p |-> [t \in VyProducers |-> VyNothingSeen],
                 c |-> [t \in VyConsumers |-> VyNothingSeen]]

\* "&head->buffer[pos & mask]"
VyCell(pos) == RingAnd(pos, v_mask)

\* The producer's test with the consumer's offset.
VyInsertDifAsDelete(seq, pos) == seq - (pos + 1)

\* The producer's test without the lap: a cell not yet consumed counts as free.
VyInsertDifNoLap(seq, pos) == IF seq <= pos THEN 0 ELSE seq - pos

\* ds_vyukhov_insert: "dif = (__s64)seq - (__s64)pos".
VyInsertDif(seq, pos) == seq - pos

\* A consumer that takes a cell whose sequence is still the position.
VyDeleteDifUnpublished(seq, pos) == seq - pos

\* ds_vyukhov_delete: "dif = (__s64)seq - (__s64)(pos + 1)".
VyDeleteDif(seq, pos) == seq - (pos + 1)

\* ds_vyukhov_insert: pos = READ_ONCE(head->enqueue_pos).
VyInsertBegin(t, key, value, seen) ==
    /\ v_p[t].pc = "idle"
    /\ v_calls < MaxVyItems
    /\ v_calls' = v_calls + 1
    /\ v_seen' = [v_seen EXCEPT !.p[t] = seen]
    /\ v_p' = [v_p EXCEPT ![t] = [pc |-> "load_seq", pos |-> v_enqueue_pos, retries |-> 0,
                                  key |-> key, value |-> value, ret |-> "none"]]
    /\ UNCHANGED <<v_enqueue_pos, v_dequeue_pos, v_mask, v_count, v_buffer, v_c,
                   v_put, v_got, v_pub, v_rel>>
    /\ UNCHANGED notVyVars

\* A call of ds_vyukhov_insert, with the history left as it is.
VyInsertLoadPos(t, key, value) == VyInsertBegin(t, key, value, v_seen.p[t])

\* ds_vyukhov_insert: seq = smp_load_acquire(&cell->sequence) and the test
\* of dif = seq - pos.
VyInsertLoadSeq(t) ==
    LET dif == VyInsertDif(v_buffer[VyCell(v_p[t].pos)].sequence, v_p[t].pos) IN
    /\ v_p[t].pc = "load_seq"
    /\ v_p' = [v_p EXCEPT ![t] =
                 IF dif = 0 THEN [@ EXCEPT !.pc = "cas"]
                 ELSE IF dif < 0 THEN VyReturn(DS_ERROR_NOMEM)
                 ELSE [@ EXCEPT !.pc = "reload"]]
    /\ UNCHANGED <<v_enqueue_pos, v_dequeue_pos, v_mask, v_count, v_buffer, v_c,
                   v_put, v_got, v_pub, v_rel>>
    /\ UNCHANGED <<v_calls, v_seen>>
    /\ UNCHANGED notVyVars

\* ds_vyukhov_insert: arena_atomic_cmpxchg(&head->enqueue_pos, pos, pos + 1).
VyInsertCas(t) ==
    /\ v_p[t].pc = "cas"
    /\ IF v_enqueue_pos = v_p[t].pos
       THEN /\ v_enqueue_pos' = v_p[t].pos + 1
            /\ v_p' = [v_p EXCEPT ![t].pc = "store_key"]
            /\ v_put' = [v_put EXCEPT ![v_p[t].pos] =
                            Append(@, [key |-> v_p[t].key, value |-> v_p[t].value])]
       ELSE /\ v_p' = [v_p EXCEPT ![t].pc = "reload"]
            /\ UNCHANGED <<v_enqueue_pos, v_put>>
    /\ UNCHANGED <<v_dequeue_pos, v_mask, v_count, v_buffer, v_c, v_got, v_pub, v_rel>>
    /\ UNCHANGED <<v_calls, v_seen>>
    /\ UNCHANGED notVyVars

\* ds_vyukhov_insert: pos = READ_ONCE(head->enqueue_pos); retries++, and
\* DS_ERROR_BUSY once the retries are used up.
VyInsertReload(t) ==
    /\ v_p[t].pc = "reload"
    /\ v_p' = [v_p EXCEPT ![t] =
                 IF @.retries + 1 < DS_VYUKHOV_MAX_RETRIES
                 THEN [@ EXCEPT !.pc = "load_seq", !.pos = v_enqueue_pos,
                                !.retries = @ + 1]
                 ELSE VyReturn(DS_ERROR_BUSY)]
    /\ UNCHANGED <<v_enqueue_pos, v_dequeue_pos, v_mask, v_count, v_buffer, v_c,
                   v_put, v_got, v_pub, v_rel>>
    /\ UNCHANGED <<v_calls, v_seen>>
    /\ UNCHANGED notVyVars

\* ds_vyukhov_insert: cell->data.key = key.
VyInsertStoreKey(t) ==
    /\ v_p[t].pc = "store_key"
    /\ v_buffer' = [v_buffer EXCEPT ![VyCell(v_p[t].pos)].key = v_p[t].key]
    /\ v_p' = [v_p EXCEPT ![t].pc = "store_value"]
    /\ UNCHANGED <<v_enqueue_pos, v_dequeue_pos, v_mask, v_count, v_c,
                   v_put, v_got, v_pub, v_rel>>
    /\ UNCHANGED <<v_calls, v_seen>>
    /\ UNCHANGED notVyVars

\* ds_vyukhov_insert: cell->data.value = value.
VyInsertStoreValue(t) ==
    /\ v_p[t].pc = "store_value"
    /\ v_buffer' = [v_buffer EXCEPT ![VyCell(v_p[t].pos)].value = v_p[t].value]
    /\ v_p' = [v_p EXCEPT ![t].pc = "publish"]
    /\ UNCHANGED <<v_enqueue_pos, v_dequeue_pos, v_mask, v_count, v_c,
                   v_put, v_got, v_pub, v_rel>>
    /\ UNCHANGED <<v_calls, v_seen>>
    /\ UNCHANGED notVyVars

\* ds_vyukhov_insert: smp_store_release(&cell->sequence, pos + 1).
VyInsertPublish(t) ==
    /\ v_p[t].pc = "publish"
    /\ v_buffer' = [v_buffer EXCEPT ![VyCell(v_p[t].pos)].sequence = v_p[t].pos + 1]
    /\ v_pub' = v_pub \cup {v_p[t].pos}
    /\ v_p' = [v_p EXCEPT ![t].pc = "count"]
    /\ UNCHANGED <<v_enqueue_pos, v_dequeue_pos, v_mask, v_count, v_c, v_put, v_got, v_rel>>
    /\ UNCHANGED <<v_calls, v_seen>>
    /\ UNCHANGED notVyVars

\* ds_vyukhov_insert: arena_atomic_inc(&head->count); return DS_SUCCESS.
VyInsertCount(t) ==
    /\ v_p[t].pc = "count"
    /\ v_count' = v_count + 1
    /\ v_p' = [v_p EXCEPT ![t] = VyReturn(DS_SUCCESS)]
    /\ UNCHANGED <<v_enqueue_pos, v_dequeue_pos, v_mask, v_buffer, v_c,
                   v_put, v_got, v_pub, v_rel>>
    /\ UNCHANGED <<v_calls, v_seen>>
    /\ UNCHANGED notVyVars

\* ds_vyukhov_delete: pos = READ_ONCE(head->dequeue_pos).
VyDeleteBegin(t, seen) ==
    /\ v_c[t].pc = "idle"
    /\ v_c' = [v_c EXCEPT ![t] = [pc |-> "load_seq", pos |-> v_dequeue_pos, retries |-> 0,
                                  key |-> 0, value |-> 0, ret |-> "none"]]
    /\ UNCHANGED <<v_enqueue_pos, v_dequeue_pos, v_mask, v_count, v_buffer, v_p,
                   v_put, v_got, v_pub, v_rel>>
    /\ UNCHANGED v_calls
    /\ v_seen' = [v_seen EXCEPT !.c[t] = seen]
    /\ UNCHANGED notVyVars

\* A call of ds_vyukhov_delete, with the history left as it is.
VyDeleteLoadPos(t) == VyDeleteBegin(t, v_seen.c[t])

\* ds_vyukhov_delete: seq = smp_load_acquire(&cell->sequence) and the test
\* of dif = seq - (pos + 1).
VyDeleteLoadSeq(t) ==
    LET dif == VyDeleteDif(v_buffer[VyCell(v_c[t].pos)].sequence, v_c[t].pos) IN
    /\ v_c[t].pc = "load_seq"
    /\ v_c' = [v_c EXCEPT ![t] =
                 IF dif = 0 THEN [@ EXCEPT !.pc = "cas"]
                 ELSE IF dif < 0 THEN VyReturn(DS_ERROR_NOT_FOUND)
                 ELSE [@ EXCEPT !.pc = "reload"]]
    /\ UNCHANGED <<v_enqueue_pos, v_dequeue_pos, v_mask, v_count, v_buffer, v_p,
                   v_put, v_got, v_pub, v_rel>>
    /\ UNCHANGED <<v_calls, v_seen>>
    /\ UNCHANGED notVyVars

\* ds_vyukhov_delete: arena_atomic_cmpxchg(&head->dequeue_pos, pos, pos + 1).
VyDeleteCas(t) ==
    /\ v_c[t].pc = "cas"
    /\ IF v_dequeue_pos = v_c[t].pos
       THEN /\ v_dequeue_pos' = v_c[t].pos + 1
            /\ v_c' = [v_c EXCEPT ![t].pc = "load_key"]
       ELSE /\ v_c' = [v_c EXCEPT ![t].pc = "reload"]
            /\ UNCHANGED v_dequeue_pos
    /\ UNCHANGED <<v_enqueue_pos, v_mask, v_count, v_buffer, v_p, v_put, v_got, v_pub, v_rel>>
    /\ UNCHANGED <<v_calls, v_seen>>
    /\ UNCHANGED notVyVars

\* ds_vyukhov_delete: pos = READ_ONCE(head->dequeue_pos); retries++, and
\* DS_ERROR_BUSY once the retries are used up.
VyDeleteReload(t) ==
    /\ v_c[t].pc = "reload"
    /\ v_c' = [v_c EXCEPT ![t] =
                 IF @.retries + 1 < DS_VYUKHOV_MAX_RETRIES
                 THEN [@ EXCEPT !.pc = "load_seq", !.pos = v_dequeue_pos,
                                !.retries = @ + 1]
                 ELSE VyReturn(DS_ERROR_BUSY)]
    /\ UNCHANGED <<v_enqueue_pos, v_dequeue_pos, v_mask, v_count, v_buffer, v_p,
                   v_put, v_got, v_pub, v_rel>>
    /\ UNCHANGED <<v_calls, v_seen>>
    /\ UNCHANGED notVyVars

\* ds_vyukhov_delete: data->key = cell->data.key.
VyDeleteLoadKey(t) ==
    /\ v_c[t].pc = "load_key"
    /\ v_c' = [v_c EXCEPT ![t].pc = "load_value",
                          ![t].key = v_buffer[VyCell(v_c[t].pos)].key]
    /\ UNCHANGED <<v_enqueue_pos, v_dequeue_pos, v_mask, v_count, v_buffer, v_p,
                   v_put, v_got, v_pub, v_rel>>
    /\ UNCHANGED <<v_calls, v_seen>>
    /\ UNCHANGED notVyVars

\* ds_vyukhov_delete: data->value = cell->data.value.
VyDeleteLoadValue(t) ==
    /\ v_c[t].pc = "load_value"
    /\ v_c' = [v_c EXCEPT ![t].pc = "release",
                          ![t].value = v_buffer[VyCell(v_c[t].pos)].value]
    /\ UNCHANGED <<v_enqueue_pos, v_dequeue_pos, v_mask, v_count, v_buffer, v_p,
                   v_put, v_got, v_pub, v_rel>>
    /\ UNCHANGED <<v_calls, v_seen>>
    /\ UNCHANGED notVyVars

\* ds_vyukhov_delete: smp_store_release(&cell->sequence, pos + mask + 1).
VyDeleteRelease(t) ==
    /\ v_c[t].pc = "release"
    /\ v_buffer' = [v_buffer EXCEPT
                      ![VyCell(v_c[t].pos)].sequence = v_c[t].pos + v_mask + 1]
    /\ v_rel' = v_rel \cup {v_c[t].pos}
    /\ v_c' = [v_c EXCEPT ![t].pc = "count"]
    /\ UNCHANGED <<v_enqueue_pos, v_dequeue_pos, v_mask, v_count, v_p, v_put, v_got, v_pub>>
    /\ UNCHANGED <<v_calls, v_seen>>
    /\ UNCHANGED notVyVars

\* ds_vyukhov_delete: arena_atomic_dec(&head->count); return DS_SUCCESS.
VyDeleteCount(t) ==
    /\ v_c[t].pc = "count"
    /\ v_count' = v_count - 1
    /\ v_got' = [v_got EXCEPT ![v_c[t].pos] =
                    Append(@, [key |-> v_c[t].key, value |-> v_c[t].value])]
    /\ v_c' = [v_c EXCEPT ![t] = VyReturn(DS_SUCCESS)]
    /\ UNCHANGED <<v_enqueue_pos, v_dequeue_pos, v_mask, v_buffer, v_p, v_put, v_pub, v_rel>>
    /\ UNCHANGED <<v_calls, v_seen>>
    /\ UNCHANGED notVyVars

\* ds_vyukhov_verify(head) on an initialised queue: the result it returns
\* for the values the state holds.  head->count is a __u64: a negative
\* v_count stands for the wrapped value 2^64 + v_count, which is above
\* every capacity.
ds_vyukhov_verify ==
    LET enq == v_enqueue_pos
        deq == v_dequeue_pos
        size == enq - deq
        capacity == v_mask + 1
    IN  IF deq > enq THEN DS_ERROR_CORRUPT
        ELSE IF size > capacity THEN DS_ERROR_CORRUPT
        ELSE IF v_count < 0 \/ v_count > capacity THEN DS_ERROR_CORRUPT
        ELSE DS_SUCCESS

NextVy ==
    \/ \E t \in VyProducers, k \in VyKeys, v \in VyValues : VyInsertLoadPos(t, k, v)
    \/ \E t \in VyProducers : VyInsertLoadSeq(t)
    \/ \E t \in VyProducers : VyInsertCas(t)
    \/ \E t \in VyProducers : VyInsertReload(t)
    \/ \E t \in VyProducers : VyInsertStoreKey(t)
    \/ \E t \in VyProducers : VyInsertStoreValue(t)
    \/ \E t \in VyProducers : VyInsertPublish(t)
    \/ \E t \in VyProducers : VyInsertCount(t)
    \/ \E t \in VyConsumers : VyDeleteLoadPos(t)
    \/ \E t \in VyConsumers : VyDeleteLoadSeq(t)
    \/ \E t \in VyConsumers : VyDeleteCas(t)
    \/ \E t \in VyConsumers : VyDeleteReload(t)
    \/ \E t \in VyConsumers : VyDeleteLoadKey(t)
    \/ \E t \in VyConsumers : VyDeleteLoadValue(t)
    \/ \E t \in VyConsumers : VyDeleteRelease(t)
    \/ \E t \in VyConsumers : VyDeleteCount(t)

\* No call is in progress.
VyAllIdle == (\A t \in VyProducers : v_p[t].pc = "idle") /\ (\A t \in VyConsumers : v_c[t].pc = "idle")

\* The threads of NextVy with one pair for all inserts; each call of
\* producer 1 and of consumer 1 notes at its start what had been reserved
\* and what had been stored by then.
NextVyStarts ==
    \/ VyInsertBegin(1, 1, 1, [reserved |-> v_dequeue_pos, stored |-> VyPrefix(v_rel)])
    \/ VyDeleteBegin(1, [reserved |-> v_enqueue_pos, stored |-> VyPrefix(v_pub)])
    \/ \E t \in VyProducers \ {1} : VyInsertLoadPos(t, 1, 1)
    \/ \E t \in VyConsumers \ {1} : VyDeleteLoadPos(t)
    \/ \E t \in VyProducers : VyInsertLoadSeq(t)
    \/ \E t \in VyProducers : VyInsertCas(t)
    \/ \E t \in VyProducers : VyInsertReload(t)
    \/ \E t \in VyProducers : VyInsertStoreKey(t)
    \/ \E t \in VyProducers : VyInsertStoreValue(t)
    \/ \E t \in VyProducers : VyInsertPublish(t)
    \/ \E t \in VyProducers : VyInsertCount(t)
    \/ \E t \in VyConsumers : VyDeleteLoadSeq(t)
    \/ \E t \in VyConsumers : VyDeleteCas(t)
    \/ \E t \in VyConsumers : VyDeleteReload(t)
    \/ \E t \in VyConsumers : VyDeleteLoadKey(t)
    \/ \E t \in VyConsumers : VyDeleteLoadValue(t)
    \/ \E t \in VyConsumers : VyDeleteRelease(t)
    \/ \E t \in VyConsumers : VyDeleteCount(t)

\* Serialized use: a call starts only when no call is in progress.  A
\* serialized call never finds dif > 0 and never loses a CAS, so the reloads
\* are left out.
NextVySerial ==
    \/ VyAllIdle /\ \E t \in VyProducers, k \in VyKeys, v \in VyValues : VyInsertLoadPos(t, k, v)
    \/ VyAllIdle /\ \E t \in VyConsumers : VyDeleteLoadPos(t)
    \/ \E t \in VyProducers : VyInsertLoadSeq(t)
    \/ \E t \in VyProducers : VyInsertCas(t)
    \/ \E t \in VyProducers : VyInsertStoreKey(t)
    \/ \E t \in VyProducers : VyInsertStoreValue(t)
    \/ \E t \in VyProducers : VyInsertPublish(t)
    \/ \E t \in VyProducers : VyInsertCount(t)
    \/ \E t \in VyConsumers : VyDeleteLoadSeq(t)
    \/ \E t \in VyConsumers : VyDeleteCas(t)
    \/ \E t \in VyConsumers : VyDeleteLoadKey(t)
    \/ \E t \in VyConsumers : VyDeleteLoadValue(t)
    \/ \E t \in VyConsumers : VyDeleteRelease(t)
    \/ \E t \in VyConsumers : VyDeleteCount(t)

(***************************************************************************)
(*                 VYUKOV MPSC QUEUE (ds_mpsc.h)                           *)
(*                                                                         *)
(* The producer threads of usertest_mpsc.c run ds_mpsc_insert, its one     *)
(* consumer thread runs ds_mpsc_delete; one action is one access to memory *)
(* another thread can reach.  A node is private to its producer until the  *)
(* exchange on ctx->head, so its allocation and set-up are one action.     *)
(***************************************************************************)

\* Bounds of the queue model: the producer threads and the nodes the arena
\* holds (the stub and one for every insert that gets a node).
MaxMpscProducers == 2
MaxMpscNodes == 4

MpscProducers == 1..MaxMpscProducers
MpscNodes == 1..MaxMpscNodes

MpscProducerIdle(done) == [pc |-> "idle", n |-> NULL, prev |-> NULL, done |-> done, ret |-> "none"]
MpscConsumerIdle(ret, left) == [pc |-> "idle", tail |-> NULL, next |-> NULL, key |-> 0, value |-> 0, ret |-> ret, left |-> left]

\* ds_mpsc_init(ctx) returning DS_SUCCESS: node 1 is the stub.
MpscInit ==
    /\ m_head = 1
    /\ m_tail = 1
    /\ m_count = 0
    /\ m_next = [n \in MpscNodes |-> NULL]
    /\ m_key = [n \in MpscNodes |-> 0]
    /\ m_value = [n \in MpscNodes |-> 0]
    /\ m_brk = 1
    /\ m_freed = {}
    /\ m_p = [t \in MpscProducers |-> MpscProducerIdle(0)]
    /\ m_c = MpscConsumerIdle("none", 0)
    /\ m_xchg = <<>>
    /\ m_ins = {}
    /\ m_del = <<>>

\* producer_thread: key = tid * 1000 + (i + 1); the model keeps the two
\* parts as key and value of the pair.
MpscItem(t, i) == [key |-> t, value |-> i + 1]

\* ds_mpsc_insert: n = bpf_arena_alloc(sizeof(*n)); n->data.key = key;
\* n->data.value = value; n->next = NULL.
MpscInsertAlloc(t) ==
    /\ m_p[t].pc = "idle"
    /\ IF m_brk + 1 \in MpscNodes
       THEN /\ m_brk' = m_brk + 1
            /\ m_key' = [m_key EXCEPT ![m_brk + 1] = MpscItem(t, m_p[t].done).key]
            /\ m_value' = [m_value EXCEPT ![m_brk + 1] = MpscItem(t, m_p[t].done).value]
            /\ m_next' = [m_next EXCEPT ![m_brk + 1] = NULL]
            /\ m_p' = [m_p EXCEPT ![t].pc = "exchange", ![t].n = m_brk + 1, ![t].ret = "none"]
       ELSE /\ m_p' = [m_p EXCEPT ![t].ret = DS_ERROR_NOMEM]
            /\ UNCHANGED <<m_brk, m_key, m_value, m_next>>
    /\ UNCHANGED <<m_head, m_tail, m_count, m_freed, m_c, m_xchg, m_ins, m_del>>
    /\ UNCHANGED notMpscVars

\* ds_mpsc_insert: prev = arena_atomic_exchange(&ctx->head, n, ARENA_RELEASE).
MpscInsertExchange(t) ==
    /\ m_p[t].pc = "exchange"
    /\ m_head' = m_p[t].n
    /\ m_p' = [m_p EXCEPT ![t].pc = "link", ![t].prev = m_head]
    /\ m_xchg' = Append(m_xchg, MpscItem(t, m_p[t].done))
    /\ UNCHANGED <<m_tail, m_count, m_next, m_key, m_value, m_brk, m_freed, m_c, m_ins, m_del>>
    /\ UNCHANGED notMpscVars

\* ds_mpsc_insert: smp_store_release(&prev->next, n).
MpscInsertLink(t) ==
    /\ m_p[t].pc = "link"
    /\ m_next' = [m_next EXCEPT ![m_p[t].prev] = m_p[t].n]
    /\ m_p' = [m_p EXCEPT ![t].pc = "count"]
    /\ UNCHANGED <<m_head, m_tail, m_count, m_key, m_value, m_brk, m_freed, m_c,
                   m_xchg, m_ins, m_del>>
    /\ UNCHANGED notMpscVars

\* ds_mpsc_insert: arena_atomic_add(&ctx->count, 1, ARENA_RELAXED);
\* return DS_SUCCESS.
MpscInsertCount(t) ==
    /\ m_p[t].pc = "count"
    /\ m_count' = m_count + 1
    /\ m_ins' = m_ins \cup {MpscItem(t, m_p[t].done)}
    /\ m_p' = [m_p EXCEPT ![t] = [MpscProducerIdle(@.done + 1) EXCEPT !.ret = DS_SUCCESS]]
    /\ UNCHANGED <<m_head, m_tail, m_next, m_key, m_value, m_brk, m_freed, m_c, m_xchg, m_del>>
    /\ UNCHANGED notMpscVars

\* ds_mpsc_delete: tail = ctx->tail; next = smp_load_acquire(&tail->next).
MpscDeleteLoadNext ==
    /\ m_c.pc = "idle"
    /\ m_c' = [MpscConsumerIdle("none", 0) EXCEPT !.pc = "load_head", !.tail = m_tail,
                                                  !.next = m_next[m_tail]]
    /\ UNCHANGED <<m_head, m_tail, m_count, m_next, m_key, m_value, m_brk, m_freed, m_p,
                   m_xchg, m_ins, m_del>>
    /\ UNCHANGED notMpscVars

\* ds_mpsc_delete: "if (tail == ctx->head) return DS_ERROR_NOT_FOUND;
\* if (next == NULL) return DS_ERROR_BUSY;".  The variant makes the two
\* tests in the other order.
MpscDeleteLoadHeadNextFirst ==
    /\ m_c.pc = "load_head"
    /\ m_c' = IF m_c.next = NULL
              THEN MpscConsumerIdle(DS_ERROR_BUSY, 0)
              ELSE IF m_c.tail = m_head
              THEN MpscConsumerIdle(DS_ERROR_NOT_FOUND, Len(m_xchg) - Len(m_del))
              ELSE [m_c EXCEPT !.pc = "load_key"]
    /\ UNCHANGED <<m_head, m_tail, m_count, m_next, m_key, m_value, m_brk, m_freed, m_p,
                   m_xchg, m_ins, m_del>>
    /\ UNCHANGED notMpscVars
MpscDeleteLoadHead ==
    /\ m_c.pc = "load_head"
    /\ m_c' = IF m_c.tail = m_head
              THEN MpscConsumerIdle(DS_ERROR_NOT_FOUND, Len(m_xchg) - Len(m_del))
              ELSE IF m_c.next = NULL
              THEN MpscConsumerIdle(DS_ERROR_BUSY, 0)
              ELSE [m_c EXCEPT !.pc = "load_key"]
    /\ UNCHANGED <<m_head, m_tail, m_count, m_next, m_key, m_value, m_brk, m_freed, m_p,
                   m_xchg, m_ins, m_del>>
    /\ UNCHANGED notMpscVars

\* The node whose data a successful ds_mpsc_delete returns: next (tail is
\* the stub), and a variant that reads the stub.
MpscDataNodeStub(tail, next) == tail
MpscDataNode(tail, next) == next

\* ds_mpsc_delete: output->key = next->data.key.
MpscDeleteLoadKey ==
    /\ m_c.pc = "load_key"
    /\ m_c' = [m_c EXCEPT !.pc = "load_value", !.key = m_key[MpscDataNode(m_c.tail, m_c.next)]]
    /\ UNCHANGED <<m_head, m_tail, m_count, m_next, m_key, m_value, m_brk, m_freed, m_p,
                   m_xchg, m_ins, m_del>>
    /\ UNCHANGED notMpscVars

\* ds_mpsc_delete: output->value = next->data.value.
MpscDeleteLoadValue ==
    /\ m_c.pc = "load_value"
    /\ m_c' = [m_c EXCEPT !.pc = "advance",
                          !.value = m_value[MpscDataNode(m_c.tail, m_c.next)]]
    /\ UNCHANGED <<m_head, m_tail, m_count, m_next, m_key, m_value, m_brk, m_freed, m_p,
                   m_xchg, m_ins, m_del>>
    /\ UNCHANGED notMpscVars

\* ds_mpsc_delete: ctx->tail = next; bpf_arena_free(tail) (which reclaims
\* nothing: usertest_arena_free, and the no-op of the userspace build).
\* The variant frees the node that becomes the stub.
MpscDeleteAdvanceFreesNext ==
    /\ m_c.pc = "advance"
    /\ m_tail' = m_c.next
    /\ m_freed' = m_freed \cup {m_c.next}
    /\ m_c' = [m_c EXCEPT !.pc = "count"]
    /\ UNCHANGED <<m_head, m_count, m_next, m_key, m_value, m_brk, m_p, m_xchg, m_ins, m_del>>
    /\ UNCHANGED notMpscVars
MpscDeleteAdvance ==
    /\ m_c.pc = "advance"
    /\ m_tail' = m_c.next
    /\ m_freed' = m_freed \cup {m_c.tail}
    /\ m_c' = [m_c EXCEPT !.pc = "count"]
    /\ UNCHANGED <<m_head, m_count, m_next, m_key, m_value, m_brk, m_p, m_xchg, m_ins, m_del>>
    /\ UNCHANGED notMpscVars

\* ds_mpsc_delete: arena_atomic_sub(&ctx->count, 1, ARENA_RELAXED);
\* return DS_SUCCESS.
MpscDeleteCount ==
    /\ m_c.pc = "count"
    /\ m_count' = m_count - 1
    /\ m_del' = Append(m_del, [key |-> m_c.key, value |-> m_c.value])
    /\ m_c' = MpscConsumerIdle(DS_SUCCESS, 0)
    /\ UNCHANGED <<m_head, m_tail, m_next, m_key, m_value, m_brk, m_freed, m_p, m_xchg, m_ins>>
    /\ UNCHANGED notMpscVars

NextMpsc ==
    \/ \E t \in MpscProducers : MpscInsertAlloc(t)
    \/ \E t \in MpscProducers : MpscInsertExchange(t)
    \/ \E t \in MpscProducers : MpscInsertLink(t)
    \/ \E t \in MpscProducers : MpscInsertCount(t)
    \/ MpscDeleteLoadNext
    \/ MpscDeleteLoadHead
    \/ MpscDeleteLoadKey
    \/ MpscDeleteLoadValue
    \/ MpscDeleteAdvance
    \/ MpscDeleteCount

(***************************************************************************)
(*                 MICHAEL-SCOTT QUEUE (ds_msqueue.h)                      *)
(*                                                                         *)
(* The producer threads of usertest_msqueue.c run ds_msqueue_insert, its   *)
(* consumer threads run ds_msqueue_delete (through ds_msqueue_pop); one    *)
(* action is one access to memory another thread can reach.  A node is     *)
(* private to its producer until it is linked, so its allocation and       *)
(* set-up are one action.  bpf_arena_free reclaims nothing where           *)
(* ds_msqueue_delete runs (usertest_arena_free, and the no-op of the       *)
(* userspace build), so a freed node keeps its contents and its address    *)
(* is not handed out again.                                                *)
(***************************************************************************)

\* usertest_msqueue.c: USERTEST_NUM_PRODUCERS and USERTEST_NUM_CONSUMERS.
MsqNumProducers == 2
MsqNumConsumers == 2

\* Bound of the queue model: the items each producer thread inserts
\* (USERTEST_ITEMS_PER_PRODUCER).
MaxMsqItems == 1

\* "int max_retries = 10;" in __msqueue_add_node and ds_msqueue_delete.
max_retries == 10

MsqProducers == 1..MsqNumProducers
MsqConsumers == 1..MsqNumConsumers
\* The arena holds the dummy, a node for every insert of the test, and a
\* node for each of the inserts that use up another thread's retries.
MsqNodes == 1..(1 + MsqNumProducers * MaxMsqItems + max_retries)

MsqProducerIdle(done, ret) == [pc |-> "idle", n |-> NULL, tail |-> NULL, next |-> NULL, retry |-> 0, done |-> done, ret |-> ret]
\* A consumer outside ds_msqueue_delete: key and value are the caller's
\* struct ds_kv (key 0: not written yet), ret is what the call returned.
MsqConsumerIdle(ret, key, value) == [pc |-> "idle", head |-> NULL, tail |-> NULL, next |-> NULL, key |-> key, value |-> value, retry |-> 0, ret |-> ret]

\* ds_msqueue_init(queue) returning DS_SUCCESS: node 1 is the dummy.
MsqInit ==
    /\ q_head = 1
    /\ q_tail = 1
    /\ q_count = 0
    /\ q_next = [n \in MsqNodes |-> NULL]
    /\ q_key = [n \in MsqNodes |-> IF n = 1 THEN 420 ELSE 0]
    /\ q_value = [n \in MsqNodes |-> IF n = 1 THEN 69 ELSE 0]
    /\ q_brk = 1
    /\ q_freed = {}
    /\ q_p = [t \in MsqProducers |-> MsqProducerIdle(0, "none")]
    /\ q_c = [t \in MsqConsumers |-> MsqConsumerIdle("none", 0, 0)]
    /\ q_link = <<>>
    /\ q_ins = {}
    /\ q_deq = <<>>
    /\ q_consumed = 0
    /\ q_seen = <<>>

\* producer_thread: key = tid * 1000 + (i + 1); the model keeps the two
\* parts as key and value of the pair.
MsqItem(t, i) == [key |-> t, value |-> i + 1]

\* arena_atomic_cmpxchg(ptr, expected, new) takes effect when *ptr equals
\* expected; and a variant that stores whatever *ptr holds.
MsqCasAlways(current, expected) == TRUE
MsqCasSucceeds(current, expected) == current = expected

\* The node whose payload ds_msqueue_delete returns: next_elem, the node
\* after the dummy; and a variant that reads the dummy.
MsqDataNodeDummy(head, next) == head
MsqDataNode(head, next) == next

\* ds_msqueue_insert: new_node = bpf_arena_alloc(sizeof(*new_node)) and the
\* initialisation of the element.
MsqInsertAllocOf(t, items) ==
    /\ q_p[t].pc = "idle"
    /\ q_p[t].done < items
    /\ IF q_brk + 1 \in MsqNodes
       THEN /\ q_brk' = q_brk + 1
            /\ q_key' = [q_key EXCEPT ![q_brk + 1] = MsqItem(t, q_p[t].done).key]
            /\ q_value' = [q_value EXCEPT ![q_brk + 1] = MsqItem(t, q_p[t].done).value]
            /\ q_next' = [q_next EXCEPT ![q_brk + 1] = NULL]
            /\ q_p' = [q_p EXCEPT ![t].pc = "load_tail", ![t].n = q_brk + 1, ![t].ret = "none"]
       ELSE /\ q_p' = [q_p EXCEPT ![t].ret = DS_ERROR_NOMEM]
            /\ UNCHANGED <<q_brk, q_key, q_value, q_next>>
    /\ UNCHANGED <<q_head, q_tail, q_count, q_freed, q_c, q_link, q_ins, q_deq>>
    /\ UNCHANGED <<q_consumed, q_seen>>
    /\ UNCHANGED notMsqVars

\* producer_thread: USERTEST_ITEMS_PER_PRODUCER calls of ds_msqueue_insert.
MsqInsertAlloc(t) == MsqInsertAllocOf(t, MaxMsqItems)

\* __msqueue_add_node: the loop test and tail = smp_load_acquire(&queue->tail);
\* out of retries, __msqueue_add_node returns DS_ERROR_INVALID and
\* ds_msqueue_insert frees new_node and returns DS_ERROR_INVALID.
MsqAddLoadTail(t) ==
    /\ q_p[t].pc = "load_tail"
    /\ IF q_p[t].retry < max_retries
       THEN /\ q_p' = [q_p EXCEPT ![t].pc = "load_next", ![t].tail = q_tail]
            /\ UNCHANGED q_freed
       ELSE /\ q_p' = [q_p EXCEPT ![t] = MsqProducerIdle(@.done, DS_ERROR_INVALID)]
            /\ q_freed' = q_freed \cup {q_p[t].n}
    /\ UNCHANGED <<q_head, q_tail, q_count, q_next, q_key, q_value, q_brk, q_c,
                   q_link, q_ins, q_deq>>
    /\ UNCHANGED <<q_consumed, q_seen>>
    /\ UNCHANGED notMsqVars

\* __msqueue_add_node: next = smp_load_acquire(&tail->node.next) and the
\* test "next != NULL".
MsqAddLoadNext(t) ==
    /\ q_p[t].pc = "load_next"
    /\ q_p' = [q_p EXCEPT ![t].next = q_next[q_p[t].tail],
                          ![t].pc = IF q_next[q_p[t].tail] # NULL THEN "help" ELSE "cas_next"]
    /\ UNCHANGED <<q_head, q_tail, q_count, q_next, q_key, q_value, q_brk, q_freed, q_c,
                   q_link, q_ins, q_deq>>
    /\ UNCHANGED <<q_consumed, q_seen>>
    /\ UNCHANGED notMsqVars

\* __msqueue_add_node, tail is lagging:
\* arena_atomic_cmpxchg(&queue->tail, tail, next_elem); retry_count++.
\* The variant leaves the CAS out.
MsqAddHelpTailSkipped(t) ==
    /\ q_p[t].pc = "help"
    /\ q_p' = [q_p EXCEPT ![t].pc = "load_tail", ![t].retry = @ + 1]
    /\ UNCHANGED <<q_head, q_tail, q_count, q_next, q_key, q_value, q_brk, q_freed, q_c,
                   q_link, q_ins, q_deq>>
    /\ UNCHANGED <<q_consumed, q_seen>>
    /\ UNCHANGED notMsqVars
MsqAddHelpTail(t) ==
    /\ q_p[t].pc = "help"
    /\ q_tail' = IF MsqCasSucceeds(q_tail, q_p[t].tail) THEN q_p[t].next ELSE q_tail
    /\ q_p' = [q_p EXCEPT ![t].pc = "load_tail", ![t].retry = @ + 1]
    /\ UNCHANGED <<q_head, q_count, q_next, q_key, q_value, q_brk, q_freed, q_c,
                   q_link, q_ins, q_deq>>
    /\ UNCHANGED <<q_consumed, q_seen>>
    /\ UNCHANGED notMsqVars

\* __msqueue_add_node:
\* arena_atomic_cmpxchg(&tail->node.next, next, &new_node->node) == next.
MsqAddCasNext(t) ==
    /\ q_p[t].pc = "cas_next"
    /\ IF MsqCasSucceeds(q_next[q_p[t].tail], q_p[t].next)
       THEN /\ q_next' = [q_next EXCEPT ![q_p[t].tail] = q_p[t].n]
            /\ q_link' = Append(q_link, MsqItem(t, q_p[t].done))
            /\ q_p' = [q_p EXCEPT ![t].pc = "count"]
       ELSE /\ q_p' = [q_p EXCEPT ![t].pc = "load_tail", ![t].retry = @ + 1]
            /\ UNCHANGED <<q_next, q_link>>
    /\ UNCHANGED <<q_head, q_tail, q_count, q_key, q_value, q_brk, q_freed, q_c, q_ins, q_deq>>
    /\ UNCHANGED <<q_consumed, q_seen>>
    /\ UNCHANGED notMsqVars

\* __msqueue_add_node: arena_atomic_inc(&queue->count).
MsqAddCount(t) ==
    /\ q_p[t].pc = "count"
    /\ q_count' = q_count + 1
    /\ q_p' = [q_p EXCEPT ![t].pc = "swing"]
    /\ UNCHANGED <<q_head, q_tail, q_next, q_key, q_value, q_brk, q_freed, q_c,
                   q_link, q_ins, q_deq>>
    /\ UNCHANGED <<q_consumed, q_seen>>
    /\ UNCHANGED notMsqVars

\* __msqueue_add_node: arena_atomic_cmpxchg(&queue->tail, tail, new_node);
\* return DS_SUCCESS, which ds_msqueue_insert returns.
MsqAddSwingTail(t) ==
    /\ q_p[t].pc = "swing"
    /\ q_tail' = IF MsqCasSucceeds(q_tail, q_p[t].tail) THEN q_p[t].n ELSE q_tail
    /\ q_ins' = q_ins \cup {MsqItem(t, q_p[t].done)}
    /\ q_p' = [q_p EXCEPT ![t] = MsqProducerIdle(@.done + 1, DS_SUCCESS)]
    /\ UNCHANGED <<q_head, q_count, q_next, q_key, q_value, q_brk, q_freed, q_c, q_link, q_deq>>
    /\ UNCHANGED <<q_consumed, q_seen>>
    /\ UNCHANGED notMsqVars

\* ds_msqueue_delete: the loop test and head = smp_load_acquire(&queue->head),
\* at the start of a call and of every retry; out of retries the call
\* returns DS_ERROR_INVALID.
MsqDeleteLoadHead(t) ==
    /\ q_c[t].pc \in {"idle", "load_head"}
    /\ q_c' = [q_c EXCEPT ![t] =
                 IF @.retry < max_retries
                 THEN [MsqConsumerIdle("none", @.key, @.value) EXCEPT
                          !.pc = "load_tail", !.head = q_head, !.retry = q_c[t].retry]
                 ELSE MsqConsumerIdle(DS_ERROR_INVALID, @.key, @.value)]
    /\ UNCHANGED <<q_head, q_tail, q_count, q_next, q_key, q_value, q_brk, q_freed, q_p,
                   q_link, q_ins, q_deq>>
    /\ UNCHANGED <<q_consumed, q_seen>>
    /\ UNCHANGED notMsqVars

\* ds_msqueue_delete: tail = smp_load_acquire(&queue->tail).
MsqDeleteLoadTail(t) ==
    /\ q_c[t].pc = "load_tail"
    /\ q_c' = [q_c EXCEPT ![t].pc = "load_next", ![t].tail = q_tail]
    /\ UNCHANGED <<q_head, q_tail, q_count, q_next, q_key, q_value, q_brk, q_freed, q_p,
                   q_link, q_ins, q_deq>>
    /\ UNCHANGED <<q_consumed, q_seen>>
    /\ UNCHANGED notMsqVars

\* ds_msqueue_delete: next = smp_load_acquire(&head->node.next).
MsqDeleteLoadNext(t) ==
    /\ q_c[t].pc = "load_next"
    /\ q_c' = [q_c EXCEPT ![t].pc = "recheck", ![t].next = q_next[q_c[t].head]]
    /\ UNCHANGED <<q_head, q_tail, q_count, q_next, q_key, q_value, q_brk, q_freed, q_p,
                   q_link, q_ins, q_deq>>
    /\ UNCHANGED <<q_consumed, q_seen>>
    /\ UNCHANGED notMsqVars

\* ds_msqueue_delete: "if (smp_load_acquire(&queue->head) != head)", then
\* "if (next == NULL) return DS_ERROR_NOT_FOUND", then "if (head == tail)".
MsqDeleteRecheckHead(t) ==
    /\ q_c[t].pc = "recheck"
    /\ q_c' = [q_c EXCEPT ![t] =
                 IF q_head # @.head THEN [@ EXCEPT !.pc = "load_head", !.retry = @ + 1]
                 ELSE IF @.next = NULL THEN MsqConsumerIdle(DS_ERROR_NOT_FOUND, @.key, @.value)
                 ELSE IF @.head = @.tail THEN [@ EXCEPT !.pc = "help"]
                 ELSE [@ EXCEPT !.pc = "load_key"]]
    /\ UNCHANGED <<q_head, q_tail, q_count, q_next, q_key, q_value, q_brk, q_freed, q_p,
                   q_link, q_ins, q_deq>>
    /\ UNCHANGED <<q_consumed, q_seen>>
    /\ UNCHANGED notMsqVars

\* ds_msqueue_delete, tail is lagging:
\* arena_atomic_cmpxchg(&queue->tail, tail, next_elem_tail); retry_count++.
MsqDeleteHelpTail(t) ==
    /\ q_c[t].pc = "help"
    /\ q_tail' = IF MsqCasSucceeds(q_tail, q_c[t].tail) THEN q_c[t].next ELSE q_tail
    /\ q_c' = [q_c EXCEPT ![t].pc = "load_head", ![t].retry = @ + 1]
    /\ UNCHANGED <<q_head, q_count, q_next, q_key, q_value, q_brk, q_freed, q_p,
                   q_link, q_ins, q_deq>>
    /\ UNCHANGED <<q_consumed, q_seen>>
    /\ UNCHANGED notMsqVars

\* ds_msqueue_delete: data->key = next_elem->data.key.
MsqDeleteLoadKey(t) ==
    /\ q_c[t].pc = "load_key"
    /\ q_c' = [q_c EXCEPT ![t].pc = "load_value",
                          ![t].key = q_key[MsqDataNode(q_c[t].head, q_c[t].next)]]
    /\ UNCHANGED <<q_head, q_tail, q_count, q_next, q_key, q_value, q_brk, q_freed, q_p,
                   q_link, q_ins, q_deq>>
    /\ UNCHANGED <<q_consumed, q_seen>>
    /\ UNCHANGED notMsqVars

\* ds_msqueue_delete: data->value = next_elem->data.value.
MsqDeleteLoadValue(t) ==
    /\ q_c[t].pc = "load_value"
    /\ q_c' = [q_c EXCEPT ![t].pc = "cas_head",
                          ![t].value = q_value[MsqDataNode(q_c[t].head, q_c[t].next)]]
    /\ UNCHANGED <<q_head, q_tail, q_count, q_next, q_key, q_value, q_brk, q_freed, q_p,
                   q_link, q_ins, q_deq>>
    /\ UNCHANGED <<q_consumed, q_seen>>
    /\ UNCHANGED notMsqVars

\* ds_msqueue_delete: arena_atomic_cmpxchg(&queue->head, head, next_elem)
\* == head, and on success bpf_arena_free(head); otherwise retry_count++.
MsqDeleteCasHead(t) ==
    /\ q_c[t].pc = "cas_head"
    /\ IF MsqCasSucceeds(q_head, q_c[t].head)
       THEN /\ q_head' = q_c[t].next
            /\ q_freed' = q_freed \cup {q_c[t].head}
            /\ q_deq' = Append(q_deq, [key |-> q_c[t].key, value |-> q_c[t].value])
            /\ q_c' = [q_c EXCEPT ![t].pc = "count"]
       ELSE /\ q_c' = [q_c EXCEPT ![t].pc = "load_head", ![t].retry = @ + 1]
            /\ UNCHANGED <<q_head, q_freed, q_deq>>
    /\ UNCHANGED <<q_tail, q_count, q_next, q_key, q_value, q_brk, q_p, q_link, q_ins>>
    /\ UNCHANGED <<q_consumed, q_seen>>
    /\ UNCHANGED notMsqVars

\* ds_msqueue_delete: arena_atomic_dec(&queue->count); return DS_SUCCESS.
MsqDeleteCount(t) ==
    /\ q_c[t].pc = "count"
    /\ q_count' = q_count - 1
    /\ q_c' = [q_c EXCEPT ![t] = MsqConsumerIdle(DS_SUCCESS, @.key, @.value)]
    /\ UNCHANGED <<q_head, q_tail, q_next, q_key, q_value, q_brk, q_freed, q_p,
                   q_link, q_ins, q_deq>>
    /\ UNCHANGED <<q_consumed, q_seen>>
    /\ UNCHANGED notMsqVars

\* enum ds_result.
ds_result(code) == CASE code = DS_SUCCESS -> 0 [] code = DS_ERROR_NOT_FOUND -> -1 [] code = DS_ERROR_NOMEM -> -3 [] code = DS_ERROR_INVALID -> -4 [] code = DS_ERROR_CORRUPT -> -5

\* ds_msqueue_pop: 1 when ds_msqueue_delete returned DS_SUCCESS, 0 when
\* it returned DS_ERROR_NOT_FOUND, else its result.
ds_msqueue_pop(result) == IF result = DS_SUCCESS THEN 1 ELSE IF result = DS_ERROR_NOT_FOUND THEN 0 ELSE ds_result(result)

\* ds_msqueue_verify: "__u64 max_iterations = 100000;".
MsqVerifyMaxIterations == 100000

\* ds_msqueue_verify: the walk, which starts at head->node.next; the count
\* is raised when it is already above 0 or the node has a successor.
RECURSIVE MsqVerifyLoop(_, _, _)
MsqVerifyLoop(node, count, found_tail) ==
    IF node # NULL /\ count < MsqVerifyMaxIterations
    THEN MsqVerifyLoop(q_next[node],
                       IF count > 0 \/ q_next[node] # NULL THEN count + 1 ELSE count,
                       found_tail \/ node = q_tail)
    ELSE [count |-> count, found_tail |-> found_tail]

\* ds_msqueue_verify(queue): the int it returns.
MsqVerifyResult ==
    LET walk == MsqVerifyLoop(q_next[q_head], 0, FALSE)
        count == IF walk.count > 0 THEN walk.count - 1 ELSE walk.count
    IN  IF q_head = NULL \/ q_tail = NULL THEN ds_result(DS_ERROR_CORRUPT) * 5
        ELSE IF ~walk.found_tail THEN ds_result(DS_ERROR_CORRUPT) * 2
        ELSE IF count > q_count + 100 \/ q_count > count + 100
        THEN ds_result(DS_ERROR_CORRUPT) * 3
        ELSE IF count >= MsqVerifyMaxIterations THEN ds_result(DS_ERROR_CORRUPT) * 4
        ELSE ds_result(DS_SUCCESS)

\* main: c.expected = USERTEST_NUM_PRODUCERS * USERTEST_ITEMS_PER_PRODUCER.
MsqExpected == MsqNumProducers * MaxMsqItems

\* What "struct ds_kv out;" of consumer_thread can hold before
\* ds_msqueue_delete has written it: any pair; the model takes one that
\* some producer inserts and one that none inserts.
MsqIndeterminate == {MsqItem(1, 0), [key |-> 0, value |-> 0]}

\* consumer_thread: done = atomic_load(&c->consumed);
\* "if (done >= c->expected) return NULL;", else ds_msqueue_pop is called.
MsqConsumerLoop(t) ==
    /\ q_c[t].pc = "idle"
    /\ q_c[t].ret = "none"
    /\ q_c' = [q_c EXCEPT ![t].pc = IF q_consumed >= MsqExpected THEN "exited" ELSE "load_head"]
    /\ UNCHANGED <<q_head, q_tail, q_count, q_next, q_key, q_value, q_brk, q_freed, q_p,
                   q_link, q_ins, q_deq, q_consumed, q_seen>>
    /\ UNCHANGED notMsqVars

\* consumer_thread, after rc = ds_msqueue_pop(&c->q, &out):
\* "if (rc == DS_SUCCESS)" the pair in out is counted and printed;
\* "if (rc == DS_ERROR_NOT_FOUND || rc == DS_ERROR_INVALID)" the loop goes
\* on; otherwise the thread returns (void *)1.
MsqConsumerResult(t) ==
    LET rc == ds_msqueue_pop(q_c[t].ret) IN
    /\ q_c[t].pc = "idle"
    /\ q_c[t].ret # "none"
    /\ IF rc = ds_result(DS_SUCCESS)
       THEN /\ q_consumed' = q_consumed + 1
            /\ \E out \in (IF q_c[t].key = 0 THEN MsqIndeterminate ELSE {[key |-> q_c[t].key, value |-> q_c[t].value]}) :
                  q_seen' = Append(q_seen, out)
            /\ q_c' = [q_c EXCEPT ![t].ret = "none"]
       ELSE /\ q_c' = [q_c EXCEPT ![t] =
                        IF rc \in {ds_result(DS_ERROR_NOT_FOUND), ds_result(DS_ERROR_INVALID)}
                        THEN [@ EXCEPT !.ret = "none"]
                        ELSE [@ EXCEPT !.pc = "exited"]]
            /\ UNCHANGED <<q_consumed, q_seen>>
    /\ UNCHANGED <<q_head, q_tail, q_count, q_next, q_key, q_value, q_brk, q_freed, q_p,
                   q_link, q_ins, q_deq>>
    /\ UNCHANGED notMsqVars

\* The threads of usertest_msqueue.c: producer_thread stops at the first
\* insert that fails, consumer_thread calls ds_msqueue_pop from its loop.
NextMsqTest ==
    \/ \E t \in MsqProducers : q_p[t].ret \in {"none", DS_SUCCESS} /\ MsqInsertAlloc(t)
    \/ \E t \in MsqProducers : MsqAddLoadTail(t)
    \/ \E t \in MsqProducers : MsqAddLoadNext(t)
    \/ \E t \in MsqProducers : MsqAddHelpTail(t)
    \/ \E t \in MsqProducers : MsqAddCasNext(t)
    \/ \E t \in MsqProducers : MsqAddCount(t)
    \/ \E t \in MsqProducers : MsqAddSwingTail(t)
    \/ \E t \in MsqConsumers : MsqConsumerLoop(t)
    \/ \E t \in MsqConsumers : q_c[t].pc = "load_head" /\ MsqDeleteLoadHead(t)
    \/ \E t \in MsqConsumers : MsqDeleteLoadTail(t)
    \/ \E t \in MsqConsumers : MsqDeleteLoadNext(t)
    \/ \E t \in MsqConsumers : MsqDeleteRecheckHead(t)
    \/ \E t \in MsqConsumers : MsqDeleteHelpTail(t)
    \/ \E t \in MsqConsumers : MsqDeleteLoadKey(t)
    \/ \E t \in MsqConsumers : MsqDeleteLoadValue(t)
    \/ \E t \in MsqConsumers : MsqDeleteCasHead(t)
    \/ \E t \in MsqConsumers : MsqDeleteCount(t)
    \/ \E t \in MsqConsumers : MsqConsumerResult(t)

\* A caller of ds_msqueue_pop that clears its struct ds_kv before the call
\* ("struct ds_kv out = {0}; ds_msqueue_pop(queue, &out)"), and the first
\* head = smp_load_acquire(&queue->head) of ds_msqueue_delete.
MsqPopCall(t) ==
    /\ q_c[t].pc = "idle"
    /\ q_c' = [q_c EXCEPT ![t] = [MsqConsumerIdle("none", 0, 0) EXCEPT !.pc = "load_tail", !.head = q_head]]
    /\ UNCHANGED <<q_head, q_tail, q_count, q_next, q_key, q_value, q_brk, q_freed, q_p,
                   q_link, q_ins, q_deq>>
    /\ UNCHANGED <<q_consumed, q_seen>>
    /\ UNCHANGED notMsqVars

\* Producers that call ds_msqueue_insert and consumers that call
\* ds_msqueue_pop with a cleared pair, at will.
NextMsqPop ==
    \/ \E t \in MsqProducers : MsqInsertAlloc(t)
    \/ \E t \in MsqProducers : MsqAddLoadTail(t)
    \/ \E t \in MsqProducers : MsqAddLoadNext(t)
    \/ \E t \in MsqProducers : MsqAddHelpTail(t)
    \/ \E t \in MsqProducers : MsqAddCasNext(t)
    \/ \E t \in MsqProducers : MsqAddCount(t)
    \/ \E t \in MsqProducers : MsqAddSwingTail(t)
    \/ \E t \in MsqConsumers : MsqPopCall(t)
    \/ \E t \in MsqConsumers : q_c[t].pc = "load_head" /\ MsqDeleteLoadHead(t)
    \/ \E t \in MsqConsumers : MsqDeleteLoadTail(t)
    \/ \E t \in MsqConsumers : MsqDeleteLoadNext(t)
    \/ \E t \in MsqConsumers : MsqDeleteRecheckHead(t)
    \/ \E t \in MsqConsumers : MsqDeleteHelpTail(t)
    \/ \E t \in MsqConsumers : MsqDeleteLoadKey(t)
    \/ \E t \in MsqConsumers : MsqDeleteLoadValue(t)
    \/ \E t \in MsqConsumers : MsqDeleteCasHead(t)
    \/ \E t \in MsqConsumers : MsqDeleteCount(t)

\* Threads that call ds_msqueue_insert and ds_msqueue_delete at will.
NextMsq ==
    \/ \E t \in MsqProducers : MsqInsertAlloc(t)
    \/ \E t \in MsqProducers : MsqAddLoadTail(t)
    \/ \E t \in MsqProducers : MsqAddLoadNext(t)
    \/ \E t \in MsqProducers : MsqAddHelpTail(t)
    \/ \E t \in MsqProducers : MsqAddCasNext(t)
    \/ \E t \in MsqProducers : MsqAddCount(t)
    \/ \E t \in MsqProducers : MsqAddSwingTail(t)
    \/ \E t \in MsqConsumers : MsqDeleteLoadHead(t)
    \/ \E t \in MsqConsumers : MsqDeleteLoadTail(t)
    \/ \E t \in MsqConsumers : MsqDeleteLoadNext(t)
    \/ \E t \in MsqConsumers : MsqDeleteRecheckHead(t)
    \/ \E t \in MsqConsumers : MsqDeleteHelpTail(t)
    \/ \E t \in MsqConsumers : MsqDeleteLoadKey(t)
    \/ \E t \in MsqConsumers : MsqDeleteLoadValue(t)
    \/ \E t \in MsqConsumers : MsqDeleteCasHead(t)
    \/ \E t \in MsqConsumers : MsqDeleteCount(t)

\* Producer 1 is suspended for good between its successful CAS on
\* tail->node.next and the rest of __msqueue_add_node (the count and the
\* swing of tail): it takes the steps up to that CAS only.  The other
\* producers and one consumer run.
MsqRunning == MsqProducers \ {1}
MsqRunningConsumers == {1}

NextMsqSuspend ==
    \/ \E t \in MsqProducers : MsqInsertAlloc(t)
    \/ \E t \in MsqProducers : MsqAddLoadTail(t)
    \/ \E t \in MsqProducers : MsqAddLoadNext(t)
    \/ \E t \in MsqProducers : MsqAddHelpTail(t)
    \/ \E t \in MsqProducers : MsqAddCasNext(t)
    \/ \E t \in MsqRunning : MsqAddCount(t)
    \/ \E t \in MsqRunning : MsqAddSwingTail(t)
    \/ \E t \in MsqRunningConsumers : MsqDeleteLoadHead(t)
    \/ \E t \in MsqRunningConsumers : MsqDeleteLoadTail(t)
    \/ \E t \in MsqRunningConsumers : MsqDeleteLoadNext(t)
    \/ \E t \in MsqRunningConsumers : MsqDeleteRecheckHead(t)
    \/ \E t \in MsqRunningConsumers : MsqDeleteHelpTail(t)
    \/ \E t \in MsqRunningConsumers : MsqDeleteLoadKey(t)
    \/ \E t \in MsqRunningConsumers : MsqDeleteLoadValue(t)
    \/ \E t \in MsqRunningConsumers : MsqDeleteCasHead(t)
    \/ \E t \in MsqRunningConsumers : MsqDeleteCount(t)

\* Producer 1 makes its inserts while producer 2 makes as many inserts as
\* producer 1 has retries.
NextMsqBudget ==
    \/ MsqInsertAlloc(1)
    \/ MsqInsertAllocOf(2, max_retries)
    \/ \E t \in MsqProducers : MsqAddLoadTail(t)
    \/ \E t \in MsqProducers : MsqAddLoadNext(t)
    \/ \E t \in MsqProducers : MsqAddHelpTail(t)
    \/ \E t \in MsqProducers : MsqAddCasNext(t)
    \/ \E t \in MsqProducers : MsqAddCount(t)
    \/ \E t \in MsqProducers : MsqAddSwingTail(t)


(***************************************************************************)
(*                    CAS-ONLY SEARCH TREE (ds_bst.h)                      *)
(***************************************************************************)
(* The leaf-oriented tree of ds_bst.h, whose insert and delete change the  *)
(* tree with one CAS on a child pointer each and use no update words.      *)
(* bst_search runs as one step, the accesses of ds_bst_insert and          *)
(* ds_bst_delete after it one step each.  Nodes: 1 is leaf_inf1, 2 is      *)
(* leaf_inf2, 3 is the root; a freed node keeps its contents and its       *)
(* address is not handed out again.                                        *)
(***************************************************************************)

\* Bounds of the tree model: threads, user keys 1..MaxCbstKey, nodes of the arena.
MaxCbstThreads == 2
MaxCbstKey == 3
MaxCbstNodes == 9

CbstThreads == 1..MaxCbstThreads
CbstKeys == 1..MaxCbstKey
CbstNodes == 1..MaxCbstNodes
\* The keys the threads delete; the other keys are inserted only.
CbstDeleteTargets == {1}

\* "#define BST_MAX_RETRIES 100" (the bound of the walk in bst_search) and
\* "while (retries < 100 && can_loop)" in ds_bst_insert and ds_bst_delete.
BST_MAX_RETRIES == 100
CbstMaxRetries == 100

\* ds_bst_init: kv.key of the sentinel leaves, ~0ULL - 1 and ~0ULL, as the
\* two keys above every user key; head->root.
CbstKeyInf1 == MaxCbstKey + 1
CbstKeyInf2 == MaxCbstKey + 2
CbstRoot == 3

CbstNoResult == [grandparent |-> NULL, parent |-> NULL, leaf |-> NULL, parent_is_right |-> FALSE, leaf_is_right |-> FALSE, found |-> FALSE]
CbstIdle(ret) == [pc |-> "idle", op |-> "none", key |-> 0, value |-> 0, result |-> CbstNoResult, sibling |-> NULL, new_leaf |-> NULL, new_internal |-> NULL, retries |-> 0, ret |-> ret]

\* ds_bst_init(head) returning DS_SUCCESS.
CbstInit ==
    /\ c_base = [n \in CbstNodes |-> IF n = 1 THEN [is_leaf |-> 1, infinite_key |-> 1]
                                     ELSE IF n = 2 THEN [is_leaf |-> 1, infinite_key |-> 2]
                                     ELSE IF n = CbstRoot THEN [is_leaf |-> 0, infinite_key |-> 2]
                                     ELSE [is_leaf |-> 0, infinite_key |-> 0]]
    /\ c_key = [n \in CbstNodes |-> IF n = 1 THEN CbstKeyInf1 ELSE IF n \in {2, CbstRoot} THEN CbstKeyInf2 ELSE 0]
    /\ c_value = [n \in CbstNodes |-> 0]
    /\ c_left = [n \in CbstNodes |-> IF n = CbstRoot THEN 1 ELSE NULL]
    /\ c_right = [n \in CbstNodes |-> IF n = CbstRoot THEN 2 ELSE NULL]
    /\ c_brk = 3
    /\ c_freed = {}
    /\ c_t = [t \in CbstThreads |-> CbstIdle("none")]
    /\ c_ins = {}

\* bst_search: the walk from head->root to a leaf.
RECURSIVE CbstSearchLoop(_, _, _, _, _, _, _)
CbstSearchLoop(key, node, parent, grandparent, parent_is_right, leaf_is_right, iterations) ==
    IF node # NULL /\ iterations < BST_MAX_RETRIES /\ c_base[node].is_leaf = 0
    THEN IF key < c_key[node]
         THEN CbstSearchLoop(key, c_left[node], node, parent, leaf_is_right, FALSE, iterations + 1)
         ELSE CbstSearchLoop(key, c_right[node], node, parent, leaf_is_right, TRUE, iterations + 1)
    ELSE [grandparent |-> grandparent, parent |-> parent, leaf |-> node,
          parent_is_right |-> parent_is_right, leaf_is_right |-> leaf_is_right,
          found |-> node # NULL /\ c_base[node].infinite_key = 0 /\ c_key[node] = key]

\* bst_search(head, key, &result) of ds_bst.h: the result it fills in.
CbstSearch(key) == CbstSearchLoop(key, CbstRoot, NULL, NULL, FALSE, FALSE, 0)

\* ds_bst_search(head, key).
ds_bst_search(key) == IF CbstSearch(key).found THEN DS_SUCCESS ELSE DS_ERROR_NOT_FOUND

\* A thread enters ds_bst_insert(head, key, value) or ds_bst_delete(head,
\* key) while no other thread is in a call on the same key; ds_bst_insert
\* rejects the sentinel keys.
CbstCall(t, op, key, value) ==
    /\ c_t[t].pc = "idle"
    /\ \A u \in CbstThreads \ {t} : c_t[u].pc = "idle" \/ c_t[u].key # key
    /\ c_t' = [c_t EXCEPT ![t] =
                 IF op = "insert" /\ key >= CbstKeyInf1 THEN CbstIdle(DS_ERROR_INVALID)
                 ELSE [CbstIdle("none") EXCEPT !.pc = "search", !.op = op, !.key = key, !.value = value]]
    /\ UNCHANGED <<c_base, c_key, c_value, c_left, c_right, c_brk, c_freed, c_ins>>
    /\ UNCHANGED notCbstVars

\* ds_bst_insert: the loop test, bst_search, "if (result.found) return
\* DS_ERROR_INVALID", the two allocations and the set-up of new_leaf and
\* new_internal.
CbstInsertSearch(t) ==
    LET result == CbstSearch(c_t[t].key)
        new_leaf == c_brk + 1
        new_internal == c_brk + 2
        below == c_t[t].key < c_key[result.leaf]
    IN
    /\ c_t[t].pc = "search"
    /\ c_t[t].op = "insert"
    /\ IF c_t[t].retries >= CbstMaxRetries
       THEN /\ c_t' = [c_t EXCEPT ![t] = CbstIdle(DS_ERROR_BUSY)]
            /\ UNCHANGED <<c_base, c_key, c_value, c_left, c_right, c_brk>>
       ELSE IF result.found
       THEN /\ c_t' = [c_t EXCEPT ![t] = CbstIdle(DS_ERROR_INVALID)]
            /\ UNCHANGED <<c_base, c_key, c_value, c_left, c_right, c_brk>>
       ELSE IF result.parent = NULL \/ result.leaf = NULL
       THEN /\ c_t' = [c_t EXCEPT ![t].retries = @ + 1]
            /\ UNCHANGED <<c_base, c_key, c_value, c_left, c_right, c_brk>>
       ELSE IF new_internal \notin CbstNodes
       THEN /\ c_t' = [c_t EXCEPT ![t] = CbstIdle(DS_ERROR_NOMEM)]
            /\ UNCHANGED <<c_base, c_key, c_value, c_left, c_right, c_brk>>
       ELSE /\ c_brk' = new_internal
            /\ c_base' = [c_base EXCEPT ![new_leaf] = [is_leaf |-> 1, infinite_key |-> 0],
                                        ![new_internal] = [is_leaf |-> 0, infinite_key |-> 0]]
            /\ c_key' = [c_key EXCEPT ![new_leaf] = c_t[t].key,
                                      ![new_internal] = IF below THEN c_key[result.leaf] ELSE c_t[t].key]
            /\ c_value' = [c_value EXCEPT ![new_leaf] = c_t[t].value]
            /\ c_left' = [c_left EXCEPT ![new_internal] = IF below THEN new_leaf ELSE result.leaf]
            /\ c_right' = [c_right EXCEPT ![new_internal] = IF below THEN result.leaf ELSE new_leaf]
            /\ c_t' = [c_t EXCEPT ![t].pc = "cas", ![t].result = result,
                                  ![t].new_leaf = new_leaf, ![t].new_internal = new_internal]
    /\ UNCHANGED <<c_freed, c_ins>>
    /\ UNCHANGED notCbstVars

\* ds_bst_insert: arena_atomic_cmpxchg(&result.parent->right or ->left,
\* old_child, new_child); DS_SUCCESS when it took effect, otherwise the two
\* nodes are freed and retries++.
CbstInsertCas(t) ==
    LET r == c_t[t].result
        prev == IF r.leaf_is_right THEN c_right[r.parent] ELSE c_left[r.parent]
    IN
    /\ c_t[t].pc = "cas"
    /\ c_t[t].op = "insert"
    /\ IF prev = r.leaf
       THEN /\ c_right' = IF r.leaf_is_right THEN [c_right EXCEPT ![r.parent] = c_t[t].new_internal] ELSE c_right
            /\ c_left' = IF r.leaf_is_right THEN c_left ELSE [c_left EXCEPT ![r.parent] = c_t[t].new_internal]
            /\ c_ins' = c_ins \cup {c_t[t].key}
            /\ c_t' = [c_t EXCEPT ![t] = CbstIdle(DS_SUCCESS)]
            /\ UNCHANGED c_freed
       ELSE /\ c_freed' = c_freed \cup {c_t[t].new_leaf, c_t[t].new_internal}
            /\ c_t' = [c_t EXCEPT ![t].pc = "search", ![t].retries = @ + 1]
            /\ UNCHANGED <<c_left, c_right, c_ins>>
    /\ UNCHANGED <<c_base, c_key, c_value, c_brk>>
    /\ UNCHANGED notCbstVars

\* ds_bst_delete: the loop test, bst_search, "if (!result.found) return
\* DS_ERROR_NOT_FOUND" and the test for a missing grandparent.
CbstDeleteSearch(t) ==
    LET result == CbstSearch(c_t[t].key) IN
    /\ c_t[t].pc = "search"
    /\ c_t[t].op = "delete"
    /\ c_t' = [c_t EXCEPT ![t] =
                 IF @.retries >= CbstMaxRetries THEN CbstIdle(DS_ERROR_BUSY)
                 ELSE IF ~result.found THEN CbstIdle(DS_ERROR_NOT_FOUND)
                 ELSE IF result.grandparent = NULL \/ result.parent = NULL \/ result.leaf = NULL
                 THEN [@ EXCEPT !.retries = @ + 1]
                 ELSE [@ EXCEPT !.pc = "load_sibling", !.result = result]]
    /\ UNCHANGED <<c_base, c_key, c_value, c_left, c_right, c_brk, c_freed, c_ins>>
    /\ UNCHANGED notCbstVars

\* ds_bst_delete: sibling = smp_load_acquire(&result.parent->left or ->right).
CbstDeleteLoadSibling(t) ==
    LET r == c_t[t].result IN
    /\ c_t[t].pc = "load_sibling"
    /\ c_t' = [c_t EXCEPT ![t].pc = "cas",
                          ![t].sibling = IF r.leaf_is_right THEN c_left[r.parent] ELSE c_right[r.parent]]
    /\ UNCHANGED <<c_base, c_key, c_value, c_left, c_right, c_brk, c_freed, c_ins>>
    /\ UNCHANGED notCbstVars

\* ds_bst_delete: arena_atomic_cmpxchg(&result.grandparent->right or ->left,
\* old_child, new_child); when it took effect the leaf and the parent are
\* freed and the call returns DS_SUCCESS, otherwise retries++.
CbstDeleteCas(t) ==
    LET r == c_t[t].result
        prev == IF r.parent_is_right THEN c_right[r.grandparent] ELSE c_left[r.grandparent]
    IN
    /\ c_t[t].pc = "cas"
    /\ c_t[t].op = "delete"
    /\ IF prev = r.parent
       THEN /\ c_right' = IF r.parent_is_right THEN [c_right EXCEPT ![r.grandparent] = c_t[t].sibling] ELSE c_right
            /\ c_left' = IF r.parent_is_right THEN c_left ELSE [c_left EXCEPT ![r.grandparent] = c_t[t].sibling]
            /\ c_freed' = c_freed \cup {r.leaf, r.parent}
            /\ c_t' = [c_t EXCEPT ![t] = CbstIdle(DS_SUCCESS)]
       ELSE /\ c_t' = [c_t EXCEPT ![t].pc = "search", ![t].retries = @ + 1]
            /\ UNCHANGED <<c_left, c_right, c_freed>>
    /\ UNCHANGED <<c_base, c_key, c_value, c_brk, c_ins>>
    /\ UNCHANGED notCbstVars

\* Threads that call ds_bst_insert on any user key and ds_bst_delete on
\* the keys of CbstDeleteTargets, at will.
NextCbst ==
    \/ \E t \in CbstThreads, key \in CbstKeys : CbstCall(t, "insert", key, 1)
    \/ \E t \in CbstThreads, key \in CbstDeleteTargets : CbstCall(t, "delete", key, 0)
    \/ \E t \in CbstThreads : CbstInsertSearch(t)
    \/ \E t \in CbstThreads : CbstInsertCas(t)
    \/ \E t \in CbstThreads : CbstDeleteSearch(t)
    \/ \E t \in CbstThreads : CbstDeleteLoadSibling(t)
    \/ \E t \in CbstThreads : CbstDeleteCas(t)

(***************************************************************************)
(*                             SPECIFICATIONS                              *)
(***************************************************************************)

\* The state after every structure has been initialised.
Init ==
    /\ ListInit
    /\ BstInit
    /\ FollyInit
    /\ RingInit
    /\ FifoInit
    /\ VyInit
    /\ MpscInit
    /\ MsqInit
    /\ AllocInit
    /\ CbstInit

SpecList == Init /\ [][NextList]_vars
SpecBst == Init /\ [][NextBst]_vars
SpecBstDeep == Init /\ [][NextBstDeep]_vars
SpecBstThreads == Init /\ [][NextBstThreads]_vars
SpecBstRetry == Init /\ [][NextBstRetry]_vars
SpecBstPairs == Init /\ [][NextBstPairs]_vars
SpecBstSuspend ==
    /\ Init
    /\ [][NextBstSuspend]_vars
    /\ \A k \in BstKeys : SF_vars(BstCall("insert", k, 1)) /\ SF_vars(BstCall("delete", k, 1))
    /\ WF_vars(BstDeleteSearch \/ BstDeleteFlag \/ BstDeleteMark \/ BstDeleteSplice \/ BstDeleteUnflag)
    /\ WF_vars(BstInsertSearch \/ BstInsertFlag \/ BstInsertChild \/ BstInsertUnflag)
SpecBstAnyKey == Init /\ [][NextBstAnyKey]_vars
SpecFolly == Init /\ [][NextFolly]_vars
SpecFollySizes == Init /\ [][NextFollySizes]_vars
SpecRing == Init /\ [][NextRing]_vars
SpecFifo == Init /\ [][NextFifo]_vars
SpecVy == Init /\ [][NextVy]_vars
SpecVyStarts == Init /\ [][NextVyStarts]_vars
SpecVySerial == Init /\ [][NextVySerial]_vars
SpecMpsc == Init /\ [][NextMpsc]_vars
\* Every producer that has exchanged head performs its link store, and the
\* consumer thread keeps calling ds_mpsc_delete and each call runs on.
SpecMpscFair ==
    /\ Init
    /\ [][NextMpsc]_vars
    /\ \A t \in MpscProducers : WF_vars(MpscInsertLink(t))
    /\ WF_vars(MpscDeleteLoadNext \/ MpscDeleteLoadHead \/ MpscDeleteLoadKey
                   \/ MpscDeleteLoadValue \/ MpscDeleteAdvance \/ MpscDeleteCount)
SpecMsq == Init /\ [][NextMsq]_vars
SpecMsqBudget == Init /\ [][NextMsqBudget]_vars
SpecMsqTest == Init /\ [][NextMsqTest]_vars
SpecMsqSuspend ==
    /\ Init
    /\ [][NextMsqSuspend]_vars
    /\ \A t \in MsqRunning :
          WF_vars(MsqAddLoadTail(t) \/ MsqAddLoadNext(t) \/ MsqAddHelpTail(t) \/ MsqAddCasNext(t)
                      \/ MsqAddCount(t) \/ MsqAddSwingTail(t))
    /\ \A t \in MsqRunningConsumers :
          WF_vars((q_c[t].pc # "idle" /\ MsqDeleteLoadHead(t)) \/ MsqDeleteLoadTail(t)
                      \/ MsqDeleteLoadNext(t) \/ MsqDeleteRecheckHead(t) \/ MsqDeleteHelpTail(t)
                      \/ MsqDeleteLoadKey(t) \/ MsqDeleteLoadValue(t) \/ MsqDeleteCasHead(t)
                      \/ MsqDeleteCount(t))
SpecAlloc == Init /\ [][NextAlloc]_vars
SpecAllocRace == Init /\ [][NextAllocRace]_vars

(***************************************************************************)
(*                                 CLAIMS                                  *)
(***************************************************************************)

\* ---- claims about the binary search tree ----

\* C1: with serialized inserts and deletes, for any tree size and depth,
\* ds_bintree_search(k) returns SUCCESS exactly when k has been inserted and
\* not subsequently deleted.
C1_BstIsSet ==
    ~b_wild => \A k \in BstKeys : (BstSearchResult(k) = DS_SUCCESS) <=> (k \in b_in)

\* ---- claims about the list ----

ListPresentKeys == {k \in ListKeys : l_abs[k] # 0}

\* Each visited node's pprev points at the slot that points to the node.
ListPprevConsistent ==
    \A i \in 1..Len(ListReach) :
        l_pprev[ListReach[i]] = IF i = 1 THEN ListHeadSlot ELSE ListNextSlot(ListReach[i - 1])

\* C9: after any serialized sequence of inserts and deletes, head.count is the
\* number of distinct keys present, a walk from head.first visits exactly
\* that many nodes, every visited node's pprev is consistent, and
\* ds_list_verify returns SUCCESS.
C9_ListConsistency ==
    /\ l_count = Cardinality(ListPresentKeys)
    /\ Len(ListReach) = l_count
    /\ ListPprevConsistent
    /\ \A g \in ListSlots : ListVerifyResult(g) = DS_SUCCESS

\* C10: after ds_list_delete(k) returned SUCCESS the deleted node is not
\* reachable from head.first, ds_list_search(k) returns NOT_FOUND, and no
\* walk visits a freed node.
C10_ListDeleteUnlinks ==
    (l_last.op = "delete" /\ l_last.ret = DS_SUCCESS) =>
        /\ \A i \in 1..Len(ListReach) : ListReach[i] # l_last.node
        /\ ListSearchResult(l_last.key).ret = DS_ERROR_NOT_FOUND
        /\ \A i \in 1..Len(ListReach) : ListReach[i] \notin l_freed

\* No two nodes a walk from head.first visits hold the same key.
ListKeysDistinct == \A i, j \in 1..Len(ListReach) : i # j => l_key[ListReach[i]] # l_key[ListReach[j]]

\* C15: in serialized use ds_list_insert(k, v2) on a list that holds key k
\* returns SUCCESS, overwrites the value of the node holding k, leaves count,
\* the nodes and their order unchanged, and a following ds_list_search(k)
\* returns v2; no two nodes of the list ever hold the same key.
C15_ListUpdateInPlace ==
    /\ []ListKeysDistinct
    /\ [][\A k \in ListKeys, v \in ListValues :
            (ListInsert(k, v) /\ k \in ListPresentKeys) =>
                /\ l_last'.ret = DS_SUCCESS
                /\ UNCHANGED <<l_count, l_brk, l_first, l_next, l_key, ListReach>>
                /\ l_value' = [l_value EXCEPT ![ListFind(l_first, k, MaxListNodes + 1)] = v]
                /\ ListSearchResult(k)'.ret = DS_SUCCESS
                /\ ListSearchResult(k)'.value = v]_vars

\* An insert has overwritten the value of a node that was already in a list
\* of two nodes.
C15_ListWitness ==
    /\ l_last.op = "insert"
    /\ l_last.ret = DS_SUCCESS
    /\ l_last.node = 1
    /\ l_brk = 2
    /\ l_count = 2
    /\ l_freed = {}
    /\ l_value[1] = l_last.value
    /\ ListSearchResult(l_last.key).value = l_last.value


\* ---- claims about the Folly SPSC ring ----

\* s is a prefix of t.
IsPrefix(s, t) == Len(s) <= Len(t) /\ \A i \in 1..Len(s) : s[i] = t[i]

\* C6: with one producer and one consumer, in every interleaving, the pairs
\* returned by successful deletes are a prefix of the pairs successfully
\* inserted (same order, nothing lost or duplicated), and no slot is
\* overwritten before it has been read: every inserted pair not yet
\* returned is still in the slot it was written to.
C6_FollyOrder ==
    /\ IsPrefix(f_del, f_ins)
    /\ \A i \in (Len(f_del) + 1)..Len(f_ins) : f_rec[(i - 1) % f_size] = f_ins[i]

\* The ring has wrapped around and every inserted pair has come out, the
\* pairs not all alike.
C6_FollyWitness ==
    /\ Len(f_del) = MaxFollyItems
    /\ Len(f_del) > f_size
    /\ f_del[1] # f_del[2]

\* The unread elements of the ring.
FollyHeld == (f_write - f_read) % f_size

\* C17: ds_spsc_insert returns DS_ERROR_FULL exactly when its load of read_idx
\* finds size - 1 unread elements, and then changes neither index nor any
\* slot; ds_spsc_delete returns DS_ERROR_NOT_FOUND exactly when its load of
\* write_idx finds read_idx equal to write_idx, and then changes neither
\* index nor the caller's output.
C17_FollyBoundary ==
    [][/\ (f_p.pc = "idle" /\ f_p'.pc = "load_read") => UNCHANGED <<f_write, f_read, f_rec>>
       /\ (f_p.pc = "load_read" /\ f_p' # f_p) =>
             IF FollyHeld = f_size - 1
             THEN /\ f_p'.pc = "idle"
                  /\ f_p'.ret = DS_ERROR_FULL
                  /\ UNCHANGED <<f_write, f_read, f_rec>>
             ELSE f_p'.pc = "store_key"
       /\ (f_p.pc = "commit" /\ f_p' # f_p) => f_p'.ret = DS_SUCCESS
       /\ (f_c.pc = "idle" /\ f_c'.pc = "load_write") =>
             /\ UNCHANGED <<f_write, f_read, f_rec>>
             /\ f_c'.key = f_c.key /\ f_c'.value = f_c.value
       /\ (f_c.pc = "load_write" /\ f_c' # f_c) =>
             IF f_read = f_write
             THEN /\ f_c'.pc = "idle"
                  /\ f_c'.ret = DS_ERROR_NOT_FOUND
                  /\ f_c'.key = f_c.key /\ f_c'.value = f_c.value
                  /\ UNCHANGED <<f_write, f_read, f_rec>>
             ELSE f_c'.pc = "load_key"
       /\ (f_c.pc = "commit" /\ f_c' # f_c) => f_c'.ret = DS_SUCCESS]_vars

\* A ring of the largest size has refused an insert when full, has been
\* emptied, and has then answered a delete with the empty result, the
\* caller's output still holding the last pair returned.
C17_FollyWitness ==
    /\ f_size = MaxFollySize
    /\ f_p.pc = "idle" /\ f_p.ret = DS_ERROR_FULL
    /\ f_c.pc = "idle" /\ f_c.ret = DS_ERROR_NOT_FOUND
    /\ Len(f_del) = f_size - 1
    /\ f_c.key = f_del[Len(f_del)].key
    /\ f_c.value = f_del[Len(f_del)].value


\* ---- claims about the CK SPSC ring ----

\* C8: with the producer inserting keys 1, 2, 3, ... and the consumer
\* popping, on a ring of power-of-two capacity, in every interleaving the
\* first successful pop returns key 1 and each later one the key that
\* follows the previously popped key; the test counts no ordering failure.
C8_RingOrder ==
    /\ \A n \in 1..Len(r_pop) : r_pop[n] = n
    /\ r_failures = 0

\* Every item has been popped from the smallest ring, which wrapped around.
C8_RingWitness ==
    /\ r_capacity = 2
    /\ Len(r_pop) = MaxRingItems
    /\ r_c.expected_key = MaxRingItems + 1


\* ---- claims about the CK SPSC FIFO ----

\* C7: with one producer and one consumer, in every interleaving,
\* successful deletes return the inserted pairs in insertion order, each
\* exactly once, also when entries are reused through recycle; and a delete
\* that reports the queue empty read a null head->next.
C7_FifoOrder ==
    /\ IsPrefix(k_del, k_ins)
    /\ (k_c.pc = "idle" /\ k_c.ret = DS_ERROR_NOT_FOUND) => k_c.seen = NULL
    /\ k_c.ret # DS_ERROR_CORRUPT

\* All pairs have come out in order, more of them than the arena has
\* entries, so at least one travelled in a recycled entry.
C7_FifoWitness ==
    /\ Len(k_del) = MaxFifoItems
    /\ k_brk < MaxFifoItems + 1
    /\ k_del[1] # k_del[2]


\* ---- claims about the Vyukov MPMC queue ----

\* C4: under any interleaving of several producers and several consumers,
\* each position is reserved by at most one insert and at most one delete,
\* and the delete that reserved position p returns the pair given by the
\* insert that reserved p (so no delete returns a pair never inserted); a
\* consumer reads a cell only after its producer has published it, and a
\* producer writes a cell only after the consumer of the previous lap has
\* released it.
C4_VyDelivery ==
    /\ \A p \in VyPositions :
          /\ Len(v_put[p]) <= 1
          /\ Len(v_got[p]) <= 1
          /\ Len(v_got[p]) = 1 => v_got[p] = v_put[p]
    /\ \A t \in VyConsumers :
          v_c[t].pc \in {"load_key", "load_value", "release", "count"} => v_c[t].pos \in v_pub
    /\ \A t \in VyProducers :
          (v_p[t].pc \in {"store_key", "store_value", "publish"} /\ v_p[t].pos >= VyCapacity)
              => (v_p[t].pos - VyCapacity) \in v_rel

\* A cell has been reused: a position of the second lap has been inserted
\* by one producer and returned by a consumer, while both producers and
\* both consumers have completed calls.
C4_VyWitness ==
    /\ \E p \in VyPositions : p >= VyCapacity /\ Len(v_got[p]) = 1
    /\ Len(v_got[0]) = 1 /\ Len(v_got[1]) = 1
    /\ v_got[0] # v_got[1]

\* Between the calls of a serialized queue the positions below enqueue_pos
\* are the inserted ones and the positions below dequeue_pos the returned
\* ones, and each returned pair is the pair inserted at its position.
VyBoundaryState ==
    VyAllIdle =>
        \A p \in VyPositions :
            /\ Len(v_put[p]) = (IF p < v_enqueue_pos THEN 1 ELSE 0)
            /\ Len(v_got[p]) = (IF p < v_dequeue_pos THEN 1 ELSE 0)
            /\ p < v_dequeue_pos => v_got[p] = v_put[p]

\* A step of a serialized insert, with the result code on a full queue as
\* parameter: an insert that finds fewer than capacity elements goes on to
\* reserve a cell and returns DS_SUCCESS, and one that finds capacity
\* elements returns the code with both positions and every cell unchanged.
VyBoundaryStep(full) ==
    \A t \in VyProducers :
        /\ (v_p[t].pc = "idle" /\ v_p'[t].pc # "idle") =>
              UNCHANGED <<v_enqueue_pos, v_dequeue_pos, v_buffer>>
        /\ (v_p[t].pc = "load_seq" /\ v_p'[t] # v_p[t]) =>
              IF v_enqueue_pos - v_dequeue_pos < VyCapacity
              THEN v_p'[t].pc = "cas"
              ELSE /\ v_p'[t].pc = "idle"
                   /\ v_p'[t].ret = full
                   /\ UNCHANGED <<v_enqueue_pos, v_dequeue_pos, v_buffer>>
        /\ (v_p[t].pc = "cas" /\ v_p'[t] # v_p[t]) => v_p'[t].pc = "store_key"
        /\ (v_p[t].pc = "count" /\ v_p'[t] # v_p[t]) => v_p'[t].ret = DS_SUCCESS

C18_VyPositions ==
    /\ v_dequeue_pos <= v_enqueue_pos
    /\ v_enqueue_pos <= v_dequeue_pos + VyCapacity

\* The queue is at its upper bound in its second lap while a producer is
\* stopped between reserving its cell and publishing it.
C18_VyWitness ==
    /\ v_dequeue_pos >= 1
    /\ v_enqueue_pos = v_dequeue_pos + VyCapacity
    /\ \E t \in VyProducers : v_p[t].pc \in {"store_key", "store_value", "publish"}


\* ---- claims about the MPSC queue ----

\* C5: with several producers and one consumer, in every interleaving the
\* pairs returned by successful ds_mpsc_delete calls are, in order, the
\* first pairs in the order of the producers' exchanges on head (each
\* exactly once, since every insert's pair is distinct); nothing is left
\* behind: when ds_mpsc_delete returns DS_ERROR_NOT_FOUND every exchanged
\* pair has been returned, and every insert that returned DS_SUCCESS has
\* its pair among the exchanged ones; and each producer's pairs come out
\* in that producer's insertion order.
C5_MpscDelivery ==
    /\ IsPrefix(m_del, m_xchg)
    /\ \A i, j \in 1..Len(m_xchg) : i # j => m_xchg[i] # m_xchg[j]
    /\ \A e \in m_ins : \E i \in 1..Len(m_xchg) : m_xchg[i] = e
    /\ (m_c.pc = "idle" /\ m_c.ret = DS_ERROR_NOT_FOUND) => m_c.left = 0
    /\ \A i, j \in 1..Len(m_del) :
          (i < j /\ m_del[i].key = m_del[j].key) => m_del[i].value < m_del[j].value

\* Every inserted pair has been delivered, the pairs of two producers
\* among them, one producer's second pair included.
C5_MpscWitness ==
    /\ Len(m_del) = MaxMpscNodes - 1
    /\ m_del[1].key # m_del[2].key
    /\ \E i \in 1..Len(m_del) : m_del[i].value = 2
    /\ m_c.ret = DS_SUCCESS


\* ---- claims about the Michael-Scott queue ----

\* The pairs of a history sequence, as a set.
MsqRange(s) == {s[i] : i \in 1..Len(s)}

\* C2: with the producers and consumers of usertest_msqueue.c, in every
\* interleaving no pair is reported as consumed twice, every pair a
\* consumer reports as consumed was enqueued, and none is lost: a pair
\* that a consumer's call has removed from the queue is reported by that
\* consumer once the call's result has been handled.
C2_MsqConservation ==
    /\ \A i, j \in 1..Len(q_seen) : i # j => q_seen[i] # q_seen[j]
    /\ MsqRange(q_seen) \subseteq MsqRange(q_link)
    /\ (\A t \in MsqConsumers : q_c[t].pc = "exited" \/ (q_c[t].pc = "idle" /\ q_c[t].ret = "none"))
          => MsqRange(q_deq) \subseteq MsqRange(q_seen)

\* C3: the k-th successful compare-and-swap on head returns the payload of
\* the node linked by the k-th successful compare-and-swap on next, in
\* every interleaving: the sequence of dequeued pairs is a prefix of the
\* sequence of linked pairs.
C3_MsqOrder == IsPrefix(q_deq, q_link)

\* Two pairs of two producers have been dequeued, the second by a
\* consumer that had to retry, while the producer of the second has not
\* yet swung the tail.
C3_MsqWitness ==
    /\ Len(q_deq) = 2
    /\ q_deq[1].key # q_deq[2].key
    /\ \E t \in MsqConsumers : q_c[t].pc = "count" /\ q_c[t].retry > 0
    /\ \E t \in MsqProducers : q_p[t].pc = "swing"

\* ---- claims about the arena allocator ----

\* Two objects share their address or a byte.
AllocOverlap(x, y) == x.addr = y.addr \/ (x.addr < y.addr + y.size /\ y.addr < x.addr + x.size)

\* C11: for any sequence of bpf_arena_alloc and bpf_arena_free calls, no object
\* returned by bpf_arena_alloc has the address of, or shares a byte with, an
\* object returned earlier and not yet freed.
C11_AllocUnique == \A i, j \in 1..Len(a_live): i < j => ~AllocOverlap(a_live[i], a_live[j])

\* The same for the objects of at least one byte.
AllocUniqueNonEmpty == \A i, j \in 1..Len(a_live): (i < j /\ a_live[i].size > 0 /\ a_live[j].size > 0) => ~AllocOverlap(a_live[i], a_live[j])

\* The same while no object has been freed.
AllocUniqueNoFree == (a_calls = Len(a_live)) => AllocUniqueNonEmpty

\* C12: every address returned by bpf_arena_alloc is 8-byte aligned and its
\* object of round_up(size, 8) bytes lies within the first PAGE_SIZE - 8 bytes
\* of the page it was allocated from; when the current page has fewer than the
\* requested bytes left, the object comes from a fresh page.
C12_AllocBounds ==
    (a_ret.op = "alloc" /\ a_ret.ok) =>
        /\ a_ret.addr % 8 = 0
        /\ a_ret.addr >= a_ret.page
        /\ a_ret.addr + a_ret.size <= a_ret.page + PAGE_SIZE - 8
        /\ (a_ret.had_page # NULL /\ a_ret.had_offset < a_ret.size) => a_ret.fresh

\* ---- claims about the tree's shape ----

\* The nodes reachable from a node through child pointers.
RECURSIVE BstSubtree(_, _)
BstSubtree(node, depth) == IF node = NULL \/ depth = 0 THEN {} ELSE {node} \cup BstSubtree(b_left[node], depth - 1) \cup BstSubtree(b_right[node], depth - 1)

\* The keys of the leaves under a node.
BstLeafKeys(node) == {b_key[n] : n \in {m \in BstSubtree(node, MaxBstNodes) : b_type[m] = BST_NODE_LEAF}}

\* C13: in every reachable state every internal node reachable from the root
\* has two non-null children, every leaf in its left subtree has a key below
\* its routing key and every leaf in its right subtree a key at or above it.
C13_BstShapeOrder ==
    \A n \in BstSubtree(b_root, MaxBstNodes):
        bst_is_internal(n) =>
            /\ b_left[n] # NULL
            /\ b_right[n] # NULL
            /\ \A k \in BstLeafKeys(b_left[n]): k < b_key[n]
            /\ \A k \in BstLeafKeys(b_right[n]): k >= b_key[n]

\* C14: ds_bintree_insert(k, v2) on a tree that has a reachable leaf with key k
\* returns DS_SUCCESS and changes nothing but the value of a leaf holding k,
\* which becomes v2: no node is allocated or linked, no child pointer or
\* update word changes, and count is unchanged.
C14_BstUpdateInPlace ==
    [][\A k \in BstKeys, v \in BstValues:
          (BstInsert(k, v) /\ k \in BstLeafKeys(b_root)) =>
              /\ b_last'.ret = DS_SUCCESS
              /\ UNCHANGED <<b_root, b_count, b_type, b_key, b_left, b_right, b_upd, b_brk>>
              /\ \E leaf \in BstNodes:
                    /\ b_type[leaf] = BST_NODE_LEAF
                    /\ b_key[leaf] = k
                    /\ b_val' = [b_val EXCEPT ![leaf] = v]]_vars


\* (write_idx - read_idx) mod size, the number of records the ring holds.
FollyOccupancy ==
    IF f_write - f_read < 0 THEN U32AddToInt(f_write - f_read, f_size)
    ELSE f_write - f_read

\* C19: for a ring initialised with any size ds_spsc_init accepts, one
\* producer and one consumer in any interleaving, in every reachable state
\* read_idx < size, write_idx < size, the occupancy
\* (write_idx - read_idx) mod size lies between 0 and size - 1, and
\* ds_spsc_verify returns DS_SUCCESS.
C19_FollyOccupancy ==
    f_size # 0 =>
        /\ U32Less(f_read, f_size)
        /\ U32Less(f_write, f_size)
        /\ FollyOccupancy >= 0
        /\ U32Less(FollyOccupancy, f_size)
        /\ FollyVerifyResult = DS_SUCCESS


\* The nodes visited from n along the next pointers, at most fuel of them.
RECURSIVE MsqWalk(_, _)
MsqWalk(n, fuel) ==
    IF n = NULL \/ fuel = 0 THEN <<>>
    ELSE <<n>> \o MsqWalk(q_next[n], fuel - 1)

\* The walk from queue->head, cut off one node after every node of the
\* arena could have been visited once.
MsqChain == MsqWalk(q_head, Cardinality(MsqNodes) + 1)

\* C20: in every reachable state the nodes reachable from head form one
\* acyclic chain that ends in a node whose next is NULL, every node on it is
\* reached by exactly one path from head, and tail points to a node on that
\* chain (head never moves past tail).
C20_MsqShape ==
    /\ q_head # NULL
    /\ Len(MsqChain) <= Cardinality(MsqNodes)
    /\ q_next[MsqChain[Len(MsqChain)]] = NULL
    /\ \A i, j \in 1..Len(MsqChain) : MsqChain[i] = MsqChain[j] => i = j
    /\ \E i \in 1..Len(MsqChain) : MsqChain[i] = q_tail

\* Both inserts are linked, one item has been dequeued, and tail still
\* points to the node head has reached, one link behind the last node.
C20_MsqWitness ==
    /\ q_head # 1
    /\ q_tail = q_head
    /\ q_next[q_tail] # NULL
    /\ Len(q_deq) = 1


\* No ds_msqueue_insert and no ds_msqueue_delete is in progress.
MsqQuiescent ==
    /\ \A t \in MsqProducers : q_p[t].pc = "idle"
    /\ \A t \in MsqConsumers : q_c[t].pc = "idle"

\* C21: in a quiescent state ds_msqueue_verify returns DS_SUCCESS for every
\* queue reached from ds_msqueue_init by successful enqueues and dequeues,
\* the freshly initialised queue and the drained queue included.
C21_MsqVerify == MsqQuiescent => MsqVerifyResult = ds_result(DS_SUCCESS)


\* The leaves below the root that hold a user key.
BstUserLeaves == {n \in BstSubtree(b_root, MaxBstNodes) : b_type[n] = BST_NODE_LEAF /\ b_key[n] < BST_SENTINEL_KEY1}

\* C22: in a quiescent state reached by inserts and deletes, head.count is
\* the number of non-sentinel leaves reachable from the root and
\* ds_bintree_verify returns DS_SUCCESS.
C22_BstVerifyCount ==
    ~b_wild => (b_count = Cardinality(BstUserLeaves) /\ BstVerifyResult = DS_SUCCESS)


\* C23: after any sequence of ds_bintree_insert and ds_bintree_delete calls,
\* the sentinel keys among their arguments, both sentinel leaves made by
\* ds_bintree_init are reachable from the root and the root is the node it
\* was.
C23_BstSentinels ==
    ~b_wild => (b_root = 3 /\ {1, 2} \subseteq BstSubtree(b_root, MaxBstNodes))


\* C24: a search for a key that is present during the whole call (no call of
\* the step-by-step thread works on it) never returns NOT_FOUND, and a search
\* for a key that is absent during the whole call never returns SUCCESS,
\* whatever update words the descent meets and wherever it is cut off.
BstKeySettled(k) == b_t.pc = "idle" \/ b_t.key # k
C24_BstSearchContention ==
    ~b_wild =>
        \A k \in BstKeys :
            BstKeySettled(k) =>
                /\ (k \in b_in => BstSearchResult(k) # DS_ERROR_NOT_FOUND)
                /\ (k \notin b_in => BstSearchResult(k) # DS_SUCCESS)


\* C25: with no other operation in progress, a call of ds_bintree_insert or
\* ds_bintree_delete that returned DS_ERROR_BUSY and is made again returns
\* another result by its MaxBstRetries-th repetition at the latest.
C25_BstBusyRecovers ==
    (b_t.pc = "idle" /\ b_t.busy = MaxBstRetries) => b_last.ret # DS_ERROR_BUSY


\* C26: a mutator that gives up because its retries are used up returns
\* DS_ERROR_BUSY, and the call has neither added nor removed an element: the
\* chain of the Michael-Scott queue, the positions of the MPMC queue and the
\* set of keys of the tree are what they were.
C26_BudgetBusy ==
    [][/\ \A t \in MsqProducers :
              (q_p[t].pc = "load_tail" /\ q_p[t].retry >= max_retries /\ q_p'[t].pc = "idle")
                  => (q_p'[t].ret = DS_ERROR_BUSY /\ MsqChain' = MsqChain)
       /\ \A t \in MsqConsumers :
              (q_c[t].pc = "load_head" /\ q_c[t].retry >= max_retries /\ q_c'[t].pc = "idle")
                  => (q_c'[t].ret = DS_ERROR_BUSY /\ MsqChain' = MsqChain)
       /\ \A t \in VyProducers :
              (v_p[t].pc = "reload" /\ v_p[t].retries + 1 >= DS_VYUKHOV_MAX_RETRIES /\ v_p'[t].pc = "idle")
                  => (v_p'[t].ret = DS_ERROR_BUSY /\ v_enqueue_pos' = v_enqueue_pos)
       /\ \A t \in VyConsumers :
              (v_c[t].pc = "reload" /\ v_c[t].retries + 1 >= DS_VYUKHOV_MAX_RETRIES /\ v_c'[t].pc = "idle")
                  => (v_c'[t].ret = DS_ERROR_BUSY /\ v_dequeue_pos' = v_dequeue_pos)
       /\ (b_t.pc = "search" /\ b_t.iterations >= BST_MAX_DEPTH /\ b_t'.pc = "idle")
              => (b_last'.ret = DS_ERROR_BUSY /\ b_in' = b_in)]_vars


\* C27: a call of ds_mpsc_delete never goes back to a step it has taken (it
\* does not loop or wait), and when the producers that exchanged head
\* perform their link stores, a consumer that got DS_ERROR_BUSY and calls
\* again eventually gets DS_SUCCESS with the element it was stalled on, the
\* next one in the order of the exchanges.
MpscDeleteStep(pc) == CASE pc = "idle" -> 0 [] pc = "load_head" -> 1 [] pc = "load_key" -> 2 [] pc = "load_value" -> 3 [] pc = "advance" -> 4 [] pc = "count" -> 5
C27_MpscStallFinite ==
    /\ [][m_c'.pc = "idle" \/ m_c' = m_c \/ MpscDeleteStep(m_c.pc) < MpscDeleteStep(m_c'.pc)]_vars
    /\ \A i \in 0..MaxMpscNodes :
           (m_c.pc = "idle" /\ m_c.ret = DS_ERROR_BUSY /\ Len(m_del) = i)
               ~> /\ m_c.pc = "idle"
                  /\ m_c.ret = DS_SUCCESS
                  /\ Len(m_del) = i + 1
                  /\ m_del[i + 1] = m_xchg[i + 1]
C27_MpscWitness ==
    /\ m_c.pc = "idle"
    /\ m_c.ret = DS_ERROR_BUSY
    /\ m_tail # m_head
    /\ m_next[m_tail] = NULL
    /\ \E t \in MpscProducers : m_p[t].pc = "link" /\ m_p[t].prev = m_tail


AllocLiveOn(page) == Cardinality({i \in 1..Len(a_live) : AllocPageOf(a_live[i].addr) = page})
C29_AllocRefcount ==
    /\ [](((\A cpu \in AllocCpus : a_t[cpu].pc = "idle")
             => \A page \in a_mapped : a_obj_cnt[page] = AllocLiveOn(page)))
    /\ [][\A page \in a_mapped \ a_mapped' : AllocLiveOn(page)' = 0]_vars

\* C30: BST operations take effect exactly once under concurrency. With
\* inserts and deletes of pairwise distinct keys, a key whose insert returned
\* DS_SUCCESS and that no delete targets is reachable from the root, and the
\* key of a delete that returned DS_SUCCESS is not reachable from the root
\* as long as no later call works on it.
C30_BstExactlyOnce ==
    ~b_wild =>
        /\ \A k \in BstKeys \ BstDeleteTargets : k \in b_in => k \in BstLeafKeys(b_root)
        /\ (b_last.op = "delete" /\ b_last.ret = DS_SUCCESS /\ BstKeySettled(b_last.key))
               => b_last.key \notin BstLeafKeys(b_root)

C32_BstHelping ==
    \A k \in BstKeys :
        /\ (bst_search(k).pParent \in BstSuspended)
              ~> (b_wild \/ (b_last.op = "insert" /\ b_last.key = k /\ b_last.ret # DS_ERROR_BUSY))
        /\ (/\ {bst_search(k).pParent, bst_search(k).pGrandParent} \cap BstSuspended # {}
            /\ b_key[bst_search(k).pLeaf] = k
            /\ b_type[bst_search(k).pLeaf] = BST_NODE_LEAF)
              ~> (b_wild \/ (b_last.op = "delete" /\ b_last.key = k /\ b_last.ret # DS_ERROR_BUSY))

C34_MpscClassify ==
    [][(m_c.pc = "load_head" /\ m_c'.pc = "idle") =>
          /\ m_c'.ret = DS_ERROR_NOT_FOUND => m_ins \subseteq {m_del[i] : i \in 1..Len(m_del)}
          /\ m_c'.ret = DS_ERROR_BUSY => \E t \in MpscProducers : m_p[t].pc = "link"
          /\ <<m_tail, m_head, m_next, m_key, m_value, m_freed>>' = <<m_tail, m_head, m_next, m_key, m_value, m_freed>>
          /\ m_c'.key = m_c.key /\ m_c'.value = m_c.value /\ m_c.key = 0 /\ m_c.value = 0
    ]_vars

\* C34 as amended: the same, with DS_ERROR_BUSY returned only if some producer
\* was between its exchange on head and its link store at some moment of the
\* call: a producer that took the call's tail as prev is there now, or its
\* link store to tail->next came after the call had loaded tail->next as null.
C34_MpscClassifyDuringCall ==
    [][(m_c.pc = "load_head" /\ m_c'.pc = "idle") =>
          /\ m_c'.ret = DS_ERROR_NOT_FOUND => m_ins \subseteq {m_del[i] : i \in 1..Len(m_del)}
          /\ m_c'.ret = DS_ERROR_BUSY =>
                /\ m_c.tail # m_head
                /\ \/ \E t \in MpscProducers : m_p[t].pc = "link" /\ m_p[t].prev = m_c.tail
                   \/ m_c.next = NULL /\ m_next[m_c.tail] # NULL
          /\ <<m_tail, m_head, m_next, m_key, m_value, m_freed>>' = <<m_tail, m_head, m_next, m_key, m_value, m_freed>>
          /\ m_c'.key = m_c.key /\ m_c'.value = m_c.value /\ m_c.key = 0 /\ m_c.value = 0
    ]_vars

\* The consumer has just got DS_ERROR_BUSY although every producer that
\* exchanged head has performed its link store.
C34_MpscWitness ==
    /\ m_c.pc = "idle"
    /\ m_c.ret = DS_ERROR_BUSY
    /\ \A t \in MpscProducers : m_p[t].pc # "link"
    /\ m_next[m_tail] # NULL

\* C35: in every interleaving with the consumer, the entry that recycle hands
\* to ds_ck_fifo_spsc_insert is one the consumer has moved head past (on the
\* chain from garbage up to head, head excluded), so neither head nor any
\* entry reachable from head; recycle returns null only when there is no
\* such entry; and while the producer writes an entry, that entry is not
\* the one whose payload the consumer is reading.
RECURSIVE FifoChain(_, _, _)
FifoChain(from, upto, fuel) == IF from = NULL \/ from = upto \/ fuel = 0 THEN {} ELSE {from} \cup FifoChain(k_next[from], upto, fuel - 1)
FifoRetired == FifoChain(k_garbage, k_head, MaxFifoEntries)
FifoLive == FifoChain(k_head, NULL, MaxFifoEntries)
C35_FifoRecycle ==
    /\ [](k_p.pc \in {"store_key", "store_value", "store_payload", "store_next"} =>
             /\ k_p.entry \notin FifoLive
             /\ k_c.pc \in {"load_payload", "store_head", "load_key", "load_value"} => k_p.entry # k_c.entry)
    /\ [][(k_p.pc = "idle" /\ k_p' # k_p) =>
             IF k_brk' = k_brk /\ k_p'.pc = "store_key"
             THEN k_p'.entry \in FifoRetired /\ k_p'.entry \notin FifoLive
             ELSE FifoRetired = {}
       ]_vars

\* The producer is writing into a recycled entry, which still holds the pair
\* of an earlier insert, while the consumer is reading a payload.
C35_FifoWitness ==
    /\ k_p.pc = "store_key"
    /\ k_kv[k_p.entry] # [key |-> 0, value |-> 0]
    /\ k_c.pc = "load_key"

SpecMsqPop == Init /\ [][NextMsqPop]_vars

\* C36: in every interleaving, a ds_msqueue_pop that returns 1 is a call
\* whose CAS on head removed an element, one that returns 0 found head
\* without a successor, every other return is negative, and a call that
\* returns 0 leaves the caller's pair as it was before the call (cleared).
C36_MsqPopResult ==
    /\ [](\A t \in MsqConsumers :
             (q_c[t].pc = "idle" /\ q_c[t].ret # "none" /\ ds_msqueue_pop(q_c[t].ret) = 0) =>
                 (q_c[t].key = 0 /\ q_c[t].value = 0))
    /\ [][\A t \in MsqConsumers :
             (q_c[t].pc # "idle" /\ q_c'[t].pc = "idle") =>
                 LET rc == ds_msqueue_pop(q_c'[t].ret) IN
                 /\ rc = 1 <=> q_c[t].pc = "count"
                 /\ rc = 0 <=> (q_c[t].pc = "recheck" /\ q_head = q_c[t].head /\ q_c[t].next = NULL)
                 /\ rc \notin {0, 1} => rc < 0
       ]_vars

\* The same without the part about the caller's pair.
MsqPopCodes ==
    [][\A t \in MsqConsumers :
          /\ (q_c[t].pc # "idle" /\ q_c'[t].pc = "idle") =>
                 LET rc == ds_msqueue_pop(q_c'[t].ret) IN
                 /\ rc = 1 <=> q_c[t].pc = "count"
                 /\ rc = 0 <=> (q_c[t].pc = "recheck" /\ q_head = q_c[t].head /\ q_c[t].next = NULL)
                 /\ rc \notin {0, 1} => rc < 0
          /\ Len(q_deq') > Len(q_deq) /\ q_c'[t] # q_c[t] => q_c'[t].pc = "count"
    ]_vars

SpecCbst == Init /\ [][NextCbst]_vars

\* C37: in every interleaving of ds_bst_insert and ds_bst_delete calls on
\* distinct keys (ds_bst.h), a key whose insert has returned DS_SUCCESS and
\* that no delete targets is found by a search from the root.
C37_CbstKeepsInserts == \A key \in c_ins \ CbstDeleteTargets : ds_bst_search(key) = DS_SUCCESS

\* C38: a bpf_arena_alloc call that returns an address returns one inside a
\* page that is mapped: a page that bpf_arena_free has given back to the
\* page source is not allocated from until the page source hands it out
\* again, also when it is still some CPU's current page.
C38_AllocNotReleased == (a_ret.op = "alloc" /\ a_ret.ok) => a_ret.page \in a_mapped

\* C39: in every interleaving, the node a producer is about to store its
\* link into (prev) has not been freed by the consumer, the node head
\* points to has not been freed, the node the consumer reads a pair from
\* has not been freed, and the consumer's tail has not moved past a node
\* whose link store is pending.
C39_MpscNoUseAfterFree ==
    /\ [](/\ m_head \notin m_freed
          /\ m_tail \notin m_freed
          /\ \A t \in MpscProducers : m_p[t].pc = "link" => m_p[t].prev \notin m_freed
          /\ m_c.pc \in {"load_key", "load_value"} => MpscDataNode(m_c.tail, m_c.next) \notin m_freed)
    /\ [][/\ \A n \in MpscNodes : m_next'[n] # m_next[n] => n \notin m_freed
          /\ m_tail' # m_tail => \A t \in MpscProducers : m_p[t].pc = "link" => m_p[t].prev # m_tail
       ]_vars

\* The consumer has freed a node and is reading a pair while a producer is
\* between its exchange and its link store.
C39_MpscWitness ==
    /\ m_freed # {}
    /\ m_c.pc = "load_key"
    /\ \E t \in MpscProducers : m_p[t].pc = "link"

\* C40: in every state that concurrent ds_vyukhov_insert and
\* ds_vyukhov_delete calls reach on an initialised queue, ds_vyukhov_verify
\* returns DS_SUCCESS and head->count lies in 0..capacity.
C40_VyVerify == ds_vyukhov_verify = DS_SUCCESS /\ v_count \in 0..(v_mask + 1)

====
